---- MODULE Spec2Model ----
(***************************************************************************)
(* Balance-consistency core of the Citrus expense tracker server           *)
(* (src/src/routes/financeRoutes.js, src/src/models/Account.js,            *)
(* src/unnamed/part_001 = models/Transaction.js + models/AccountType.js).  *)
(*                                                                         *)
(* Money is modelled in whole minor units (exact integers); the rounding   *)
(* of IEEE-754 doubles is not modelled.  Documents are records keyed by a  *)
(* generated id that is never reused (a MongoDB ObjectId).                 *)
(***************************************************************************)
EXTENDS Integers, FiniteSets, Sequences, TLC

\* ---------------------------------------------------------------- bounds
\* The number of requests a behaviour serves (an entry of a sync batch
\* counts as a request).
MaxRequests == 4

Users == {"u1", "u2"}
Names == {"Vault"}
\* An id that names no document (never generated by the store).
NoId == 0
Amounts == {1, 2}
\* Amounts a client may send: 0 is refused by the validation of the routes
\* that validate, and stored by the routes that do not.
BodyAmounts == {0} \cup Amounts
TxTypes == {"income", "expense"}
\* Types a client may send ("other" stands for any string outside the enum).
BodyTypes == {"income", "expense", "other"}
\* Balances a client may send when it creates an account.
OpeningBalances == {0, 2}

VARIABLES
  accounts,   \* Account collection: id -> [user, name, balance]
  txs,        \* Transaction collection: id -> [user, accountId, amount, type, category]
  nextAcc,    \* next Account id the store generates
  nextTx,     \* next Transaction id the store generates
  served,     \* number of requests that have arrived so far
  last,       \* the last request answered: [op, status, note]
  req,        \* per worker, the request it is serving and the handler's locals
  ledger,     \* per account, its opening balance plus the adjustments of
              \* the requests answered with success (history, kept while
              \* requests are served concurrently)
  clean,      \* whether every concurrent request so far was answered with
              \* success (history)
  types,      \* AccountType collection, in insertion order: [user, label]
  sync,       \* the locals of the sync handler and, as history, the batch
              \* entries its loops have consumed
  registered, \* User collection: the users created by POST /register
  rateLimit,  \* the Map of rateLimiter.js, as its entries [key, count, resetTime]
  now,        \* Date.now() of the latest limiter call, in milliseconds
  calls       \* per identifier, the limiter calls of its current window:
              \* [limiter, route, admit] in order of arrival (history)

vars ==
  <<accounts, txs, nextAcc, nextTx, served, last, req, ledger, clean, types, sync,
    registered, rateLimit, now, calls>>

\* ------------------------------------------------------- request bodies
\* An optional body field is a set: {} when the field is absent, {v} when
\* it is present with value v.
Has(f) == f # {}
Val(f) == CHOOSE x \in f : TRUE
Opt(S) == {{}} \cup {{x} : x \in S}

\* The body of PUT /transactions/:id: any subset of the schema's fields.
PutBody(accountId, amount, type, user) ==
  [accountId |-> accountId, amount |-> amount, type |-> type, user |-> user]

\* The last request: the route, the status answered, and a note that names
\* the case of the request (see each action).
Req(op, status, note) == [op |-> op, status |-> status, note |-> note]

\* Ids a client can name: those the store has generated so far, and NoId.
KnownAccIds == 1..(nextAcc - 1)
KnownTxIds == 1..(nextTx - 1)

\* ------------------------------------------------------ store primitives
\* A removal that removes nothing.
RemoveNothing(coll, ids) == coll

\* Model.deleteMany / findOneAndDelete: the collection without these ids.
Remove(coll, ids) == [i \in DOMAIN coll \ ids |-> coll[i]]

\* A lookup by id alone, without the owner filter.
FindOneAnyOwner(coll, id, u) == IF id \in DOMAIN coll THEN id ELSE NoId

\* Model.findOne({_id: id, user: u}): the id of the matching document, or NoId.
FindOne(coll, id, u) ==
  IF id \in DOMAIN coll /\ coll[id].user = u THEN id ELSE NoId

\* accountSchema.balance: min: [0, 'Balance cannot be negative'], run by save().
BalanceValid(b) == b >= 0

\* A save that reports success and writes nothing.
SaveBalanceSkipped(accs, id, b) == accs

\* account.save() of a document whose balance was set to b: the validation
\* rejects a negative balance and then nothing is written.
SaveBalance(accs, id, b) ==
  IF BalanceValid(b) THEN [accs EXCEPT ![id].balance = b] ELSE accs

\* An effect that subtracts whatever the type.
EffectIgnoresType(type, amount) == 0 - amount

\* The signed effect of a transaction on its account as every handler
\* computes it: type === 'income' adds, anything else subtracts.
Effect(type, amount) == IF type = "income" THEN amount ELSE 0 - amount

\* A revert that applies the effect a second time.
RevertedAddsAgain(balance, tx) == balance + Effect(tx.type, tx.amount)

\* "Revert old effect" of the update and delete handlers: income is
\* subtracted, anything else is added back.
Reverted(balance, tx) == balance - Effect(tx.type, tx.amount)

\* ------------------------------------------------------------- results
\* What a handler run leaves behind: the two collections, the id counter
\* and the HTTP status of the response.
Outcome(a, t, n, s) == [accounts |-> a, txs |-> t, nextTx |-> n, status |-> s]

\* validateTransaction: amount a positive number, type in the enum.
ValidTransaction(amount, type) == amount > 0 /\ type \in TxTypes

\* What the Transaction model stores of a document: the paths of
\* transactionSchema (user, accountId, amount, type, category; description
\* and date are not modelled).  The schema is strict, so any other field set
\* on the document or passed to Transaction.create, balanceAt included, is
\* not written.
Stored(doc) ==
  [user |-> doc.user, accountId |-> doc.accountId, amount |-> doc.amount,
   type |-> doc.type, category |-> doc.category]

\* router.post('/transactions'): create a transaction and adjust its account.
PostTransactionRun(accs, t, n, u, accountId, amount, type) ==
  IF ~ValidTransaction(amount, type) THEN Outcome(accs, t, n, 400)
  ELSE IF FindOne(accs, accountId, u) = NoId THEN Outcome(accs, t, n, 404)
  ELSE
    LET balance == accs[accountId].balance + Effect(type, amount)
        \* transaction.balanceAt = account.balance
        tx == Stored([user |-> u, accountId |-> accountId, amount |-> amount,
                      type |-> type, category |-> "Food", balanceAt |-> balance])
    \* Promise.all([transaction.save(), account.save()]): both saves are
    \* started; a rejected account validation does not stop the insert.
    IN Outcome(SaveBalance(accs, accountId, balance), t @@ (n :> tx), n + 1,
               IF BalanceValid(balance) THEN 201 ELSE 400)

\* A same-account check that never fires.
SameAccountNever(source, target) == FALSE

\* sourceAccountId === targetAccountId
SameAccount(source, target) == source = target

\* router.post('/transfer'): a paired expense and income.
PostTransferRun(accs, t, n, u, source, target, amount) ==
  IF amount <= 0 THEN Outcome(accs, t, n, 400)
  ELSE IF SameAccount(source, target) THEN Outcome(accs, t, n, 400)
  ELSE IF FindOne(accs, source, u) = NoId \/ FindOne(accs, target, u) = NoId
  THEN Outcome(accs, t, n, 404)
  ELSE
    LET sourceBalance == accs[source].balance - amount
        targetBalance == accs[target].balance + amount
        expenseTx == Stored([user |-> u, accountId |-> source, amount |-> amount,
                             type |-> "expense", category |-> "Transfer",
                             balanceAt |-> sourceBalance])
        incomeTx == Stored([user |-> u, accountId |-> target, amount |-> amount,
                            type |-> "income", category |-> "Transfer",
                            balanceAt |-> targetBalance])
        \* Promise.all([sourceAccount.save(), targetAccount.save()]): each
        \* save validates and writes on its own.
        saved == SaveBalance(SaveBalance(accs, source, sourceBalance), target, targetBalance)
    IN Outcome(saved, t @@ (n :> expenseTx) @@ ((n + 1) :> incomeTx), n + 2,
               IF BalanceValid(sourceBalance) /\ BalanceValid(targetBalance)
               THEN 201 ELSE 400)

\* Transaction.findByIdAndUpdate(id, req.body, {new: true}): the fields the
\* body names are set, without validation.
UpdatedTx(oldTx, body) ==
  [user |-> IF Has(body.user) THEN Val(body.user) ELSE oldTx.user,
   accountId |-> IF Has(body.accountId) THEN Val(body.accountId) ELSE oldTx.accountId,
   amount |-> IF Has(body.amount) THEN Val(body.amount) ELSE oldTx.amount,
   type |-> IF Has(body.type) THEN Val(body.type) ELSE oldTx.type,
   category |-> oldTx.category]

\* router.put('/transactions/:id'): revert the old effect, update the
\* record, apply the new effect to the target account.
PutTransactionRun(accs, t, n, u, id, body) ==
  IF FindOne(t, id, u) = NoId THEN Outcome(accs, t, n, 404)
  ELSE
    LET oldTx == t[id]
        account == FindOne(accs, oldTx.accountId, u)
        reverted == IF account # NoId THEN Reverted(accs[account].balance, oldTx) ELSE 0
        updatedTx == UpdatedTx(oldTx, body)
        t2 == [t EXCEPT ![id] = updatedTx]
        targetAccount == IF Has(body.accountId) /\ Val(body.accountId) # oldTx.accountId
                         THEN FindOne(accs, Val(body.accountId), u)
                         ELSE account
        applied == Effect(updatedTx.type, updatedTx.amount)
    IN IF targetAccount # NoId /\ targetAccount = account
       THEN \* one document carries the revert and the new effect: one save
            Outcome(SaveBalance(accs, account, reverted + applied), t2, n,
                    IF BalanceValid(reverted + applied) THEN 200 ELSE 400)
       ELSE IF targetAccount # NoId
       THEN LET targetBalance == accs[targetAccount].balance + applied IN
            IF ~BalanceValid(targetBalance)
            THEN \* targetAccount.save() throws: account.save() is not reached
                 Outcome(accs, t2, n, 400)
            ELSE IF account = NoId
            THEN Outcome(SaveBalance(accs, targetAccount, targetBalance), t2, n, 200)
            ELSE Outcome(SaveBalance(SaveBalance(accs, targetAccount, targetBalance),
                                     account, reverted),
                         t2, n, IF BalanceValid(reverted) THEN 200 ELSE 400)
       ELSE IF account # NoId
       THEN \* just save the revert
            Outcome(SaveBalance(accs, account, reverted), t2, n,
                    IF BalanceValid(reverted) THEN 200 ELSE 400)
       ELSE Outcome(accs, t2, n, 200)

\* router.delete('/transactions/:id'): remove the record, then revert its
\* effect on the account if the caller still owns one with that id.
DeleteTransactionRun(accs, t, n, u, id) ==
  IF FindOne(t, id, u) = NoId THEN Outcome(accs, t, n, 200)
  ELSE
    LET tx == t[id]
        t2 == Remove(t, {id})
        account == FindOne(accs, tx.accountId, u)
    IN IF account = NoId THEN Outcome(accs, t2, n, 200)
       ELSE LET balance == Reverted(accs[account].balance, tx) IN
            Outcome(SaveBalance(accs, account, balance), t2, n,
                    IF BalanceValid(balance) THEN 200 ELSE 400)

\* A bulk handler that computes no adjustment at all.
BalanceAdjustmentNone(t, ids, a) == 0

\* The sum of the reverting adjustments of the transactions `ids` of t that
\* reference account a (balanceAdjustments[accountId] of the bulk handlers).
RECURSIVE BalanceAdjustment(_, _, _)
BalanceAdjustment(t, ids, a) ==
  IF ids = {} THEN 0
  ELSE LET i == CHOOSE x \in ids : TRUE
       IN (IF t[i].accountId = a THEN 0 - Effect(t[i].type, t[i].amount) ELSE 0)
          + BalanceAdjustment(t, ids \ {i}, a)

\* Account.bulkWrite of one updateOne per adjusted account, filter
\* {_id, user}, update {$inc: {balance: adjustment}}: no validation runs.
BulkWrite(accs, t, matched, u) ==
  [a \in DOMAIN accs |->
     IF accs[a].user = u
     THEN [accs[a] EXCEPT !.balance = @ + BalanceAdjustment(t, matched, a)]
     ELSE accs[a]]

\* router.delete('/transactions/bulk-delete').
BulkDeleteRun(accs, t, n, u, ids) ==
  IF ids = {} THEN Outcome(accs, t, n, 400)
  ELSE
    LET transactions == {i \in ids \cap DOMAIN t : t[i].user = u} IN
    IF transactions = {} THEN Outcome(accs, t, n, 404)
    ELSE Outcome(BulkWrite(accs, t, transactions, u), Remove(t, transactions), n, 200)

\* A cascade that matches nothing.
CascadeNothing(t, id, u) == {}

\* The filter { accountId: req.params.id, user: req.user._id }.
Cascade(t, id, u) == {i \in DOMAIN t : t[i].accountId = id /\ t[i].user = u}

\* router.delete('/accounts/:id'): the account, then its transactions.
DeleteAccountRun(accs, t, n, u, id) ==
  IF FindOne(accs, id, u) = NoId THEN Outcome(accs, t, n, 404)
  ELSE Outcome(Remove(accs, {id}), Remove(t, Cascade(t, id, u)), n, 200)

\* Account names the cleanup is exercised with.  "constructor" stands for
\* the names that are keys every JavaScript object inherits (constructor,
\* toString, valueOf, hasOwnProperty, __proto__, ...).
CleanupNames == {"Vault", "Cash", "constructor"}
InheritedKeys == {"constructor"}

\* Account.find({ user }).sort({ createdAt: 1 }): the caller's accounts;
\* ids are generated in creation order, so a smaller id is an older account.
AccountsOf(accs, u) == {a \in DOMAIN accs : accs[a].user = u}

\* grouped[acc.name].push(acc) on `const grouped = {}`: for a name that is
\* an inherited key, grouped[name] is already truthy and has no push, and
\* the handler throws a TypeError.
GroupingThrows(accs, u) == \E a \in AccountsOf(accs, u) : accs[a].name \in InheritedKeys

\* const [keep, ...remove] = group, over every group of more than one.
RemoveIds(accs, u) ==
  {a \in AccountsOf(accs, u) :
     \E b \in AccountsOf(accs, u) : b < a /\ accs[b].name = accs[a].name}

\* res.json({ message, deletedCount, affectedAccounts: deletedNames })
CleanupResponse(accs, u) ==
  [deletedCount |-> Cardinality(RemoveIds(accs, u)),
   affectedAccounts |-> {accs[a].name : a \in RemoveIds(accs, u)}]

\* router.delete('/accounts/cleanup'): per duplicated name, delete the later
\* accounts and every transaction that references them.
CleanupRun(accs, t, n, u) ==
  IF GroupingThrows(accs, u) THEN Outcome(accs, t, n, 500)
  ELSE Outcome(Remove(accs, RemoveIds(accs, u)),
               Remove(t, {i \in DOMAIN t : t[i].accountId \in RemoveIds(accs, u)}),
               n, 200)

\* ------------------------------------------------------------- workers
\* Requests in flight at the same time (the event loop interleaves the
\* handlers at every await).
Procs == {1, 2}

NoTx == [user |-> "", accountId |-> NoId, amount |-> 0, type |-> "", category |-> ""]

\* A worker that serves no request.
Idle ==
  [pc |-> "idle", op |-> "", user |-> "", id |-> NoId, body |-> PutBody({}, {}, {}, {}),
   oldTx |-> NoTx, updatedTx |-> NoTx, account |-> NoId, balance |-> 0,
   target |-> NoId, targetBalance |-> 0, pending |-> {}, failed |-> FALSE,
   deltas |-> <<>>, ids |-> {}, found |-> {}, ops |-> <<>>, count |-> 0, removed |-> 0]

\* ------------------------------------------------------------- actions
\* One request served from arrival to response.
Apply(op, u, note, out) ==
  /\ \A p \in DOMAIN req : req[p].pc = "idle"
  /\ UNCHANGED <<req, ledger, clean, types, sync, registered, rateLimit, now, calls>>
  /\ served < MaxRequests
  /\ served' = served + 1
  /\ accounts' = out.accounts
  /\ txs' = out.txs
  /\ nextTx' = out.nextTx
  /\ last' = Req(op, out.status, note)
  /\ UNCHANGED nextAcc

\* router.post('/accounts'): validateAccount admits a balance >= 0.
AccountCreate(u, name, balance) ==
  /\ served < MaxRequests
  /\ served' = served + 1
  /\ accounts' = accounts @@ (nextAcc :> [user |-> u, name |-> name, balance |-> balance])
  /\ nextAcc' = nextAcc + 1
  /\ last' = Req("postAccounts", 201, "")
  /\ UNCHANGED <<txs, nextTx, req, clean, types, sync, registered, rateLimit, now, calls>>

PostAccounts(u, name, balance) ==
  AccountCreate(u, name, balance) /\ UNCHANGED ledger

DeleteAccount(u, id) ==
  Apply("deleteAccount", u, "", DeleteAccountRun(accounts, txs, nextTx, u, id))

\* Whether the record exists and belongs to someone other than u.
NotOwned(coll, id, u) == id \in DOMAIN coll /\ coll[id].user # u

\* Why a lookup of id by u finds nothing, "" when it finds the record.
LookupNote(coll, id, u) ==
  IF NotOwned(coll, id, u) THEN "not owned"
  ELSE IF id \notin DOMAIN coll THEN "absent" ELSE ""

PostTransactions(u, accountId, amount, type) ==
  Apply("postTransactions", u, LookupNote(accounts, accountId, u),
           PostTransactionRun(accounts, txs, nextTx, u, accountId, amount, type))

PostTransfer(u, source, target, amount) ==
  Apply("postTransfer", u,
        IF source = target THEN "same account"
        ELSE IF NotOwned(accounts, source, u) \/ NotOwned(accounts, target, u) THEN "not owned"
        ELSE IF source \notin DOMAIN accounts \/ target \notin DOMAIN accounts THEN "absent"
        ELSE "",
           PostTransferRun(accounts, txs, nextTx, u, source, target, amount))

\* Whether every field the body names carries the value the record holds.
OwnValues(tx, body) ==
  /\ Has(body.accountId) => Val(body.accountId) = tx.accountId
  /\ Has(body.amount) => Val(body.amount) = tx.amount
  /\ Has(body.type) => Val(body.type) = tx.type
  /\ Has(body.user) => Val(body.user) = tx.user

PutTransaction(u, id, body) ==
  Apply("putTransaction", u,
        IF FindOne(txs, id, u) # NoId /\ OwnValues(txs[id], body) THEN "own values"
        ELSE LookupNote(txs, id, u),
        PutTransactionRun(accounts, txs, nextTx, u, id, body))

DeleteTransaction(u, id) ==
  Apply("deleteTransaction", u,
        IF FindOne(txs, id, u) # NoId /\ txs[id].accountId \notin DOMAIN accounts
        THEN "no account" ELSE LookupNote(txs, id, u),
        DeleteTransactionRun(accounts, txs, nextTx, u, id))

Cleanup(u) ==
  Apply("cleanup", u, "", CleanupRun(accounts, txs, nextTx, u))

BulkDelete(u, ids) ==
  Apply("bulkDelete", u, "", BulkDeleteRun(accounts, txs, nextTx, u, ids))


\* ---------------------------------------------------- interleaved handlers
\* The same handlers, one store call per step, so that the calls of two
\* requests interleave.  A request's arrival and its first store call are
\* one step: nothing is shared before that call.

\* Adds a sequence of <<account, delta>> adjustments to a ledger.
RECURSIVE Booked(_, _)
Booked(l, deltas) ==
  IF deltas = <<>> THEN l
  ELSE LET a == Head(deltas)[1]
           d == Head(deltas)[2]
       IN Booked(IF a \in DOMAIN l THEN [l EXCEPT ![a] = @ + d] ELSE l, Tail(deltas))

\* A response that, for an error status, leaves the request in flight at the
\* call that failed.
RespondRetries(p, status) ==
  /\ IF status < 400
     THEN last' = Req(req[p].op, status, "") /\ req' = [req EXCEPT ![p] = Idle]
     ELSE UNCHANGED <<last, req>>
  /\ ledger' = IF status < 400 THEN Booked(ledger, req[p].deltas) ELSE ledger
  /\ clean' = (clean /\ status < 400)
  /\ UNCHANGED <<types, sync, registered, rateLimit, now, calls>>

\* The response: the worker is free again.
Respond(p, status) ==
  /\ last' = Req(req[p].op, status, "")
  /\ req' = [req EXCEPT ![p] = Idle]
  /\ ledger' = IF status < 400 THEN Booked(ledger, req[p].deltas) ELSE ledger
  /\ clean' = (clean /\ status < 400)
  /\ UNCHANGED <<types, sync, registered, rateLimit, now, calls>>

\* The response to a request that made no store call beyond its first.
RespondAtOnce(p, op, status) ==
  /\ last' = Req(op, status, "")
  /\ clean' = (clean /\ status < 400)
  /\ UNCHANGED <<req, ledger, types, sync, registered, rateLimit, now, calls>>

Arrive(p) ==
  /\ req[p].pc = "idle"
  /\ served < MaxRequests
  /\ served' = served + 1

\* document.save() of an account whose in-memory balance is b: validation,
\* then updateOne({_id}, {$set: {balance: b}}), which finds no document when
\* the account was deleted in between (DocumentNotFoundError).
SaveSucceeds(id, b) == BalanceValid(b) /\ id \in DOMAIN accounts

SaveAccountDoc(id, b) ==
  accounts' = IF SaveSucceeds(id, b) THEN [accounts EXCEPT ![id].balance = b] ELSE accounts

\* --- router.post('/accounts'), served while no other request is in flight;
\* the ledger opens with the account's balance.
OpenAccount(u, name, balance) ==
  /\ \A p \in Procs : req[p].pc = "idle"
  /\ AccountCreate(u, name, balance)
  /\ ledger' = ledger @@ (nextAcc :> balance)

\* --- router.post('/transactions')
CreateFind(p, u, accountId, amount, type) ==
  /\ Arrive(p)
  /\ ValidTransaction(amount, type)
  /\ IF FindOne(accounts, accountId, u) = NoId
     THEN /\ RespondAtOnce(p, "postTransactions", 404)
          /\ UNCHANGED <<accounts, txs, nextAcc, nextTx>>
     ELSE /\ req' = [req EXCEPT ![p] =
                 [Idle EXCEPT !.pc = "saves", !.op = "postTransactions", !.user = u,
                    !.id = nextTx, !.account = accountId,
                    !.balance = accounts[accountId].balance + Effect(type, amount),
                    !.updatedTx = Stored([user |-> u, accountId |-> accountId,
                                          amount |-> amount, type |-> type,
                                          category |-> "Food",
                                          balanceAt |-> accounts[accountId].balance
                                                        + Effect(type, amount)]),
                    !.pending = {"transaction", "account"},
                    !.deltas = <<<<accountId, Effect(type, amount)>>>>]]
          \* new Transaction(...) draws the id
          /\ nextTx' = nextTx + 1
          /\ UNCHANGED <<accounts, txs, nextAcc, last, ledger, clean, types, sync, registered, rateLimit, now, calls>>

\* One of the two saves of Promise.all([transaction.save(), account.save()]).
CreateSave(p, which) ==
  LET r == req[p]
      ok == which = "transaction" \/ SaveSucceeds(r.account, r.balance)
      failed == r.failed \/ ~ok
  IN /\ r.pc = "saves" /\ r.op = "postTransactions"
     /\ which \in r.pending
     /\ IF which = "transaction"
        THEN txs' = txs @@ (r.id :> r.updatedTx) /\ UNCHANGED accounts
        ELSE SaveAccountDoc(r.account, r.balance) /\ UNCHANGED txs
     /\ IF r.pending = {which}
        THEN Respond(p, IF failed THEN 400 ELSE 201)
        ELSE /\ req' = [req EXCEPT ![p].pending = @ \ {which}, ![p].failed = failed]
             /\ UNCHANGED <<last, ledger, clean, types, sync, registered, rateLimit, now, calls>>
     /\ UNCHANGED <<nextAcc, nextTx, served>>

\* --- router.delete('/transactions/:id')
DeleteFindOneAndDelete(p, u, id) ==
  /\ Arrive(p)
  /\ IF FindOne(txs, id, u) = NoId
     THEN /\ RespondAtOnce(p, "deleteTransaction", 200)
          /\ UNCHANGED txs
     ELSE /\ txs' = Remove(txs, {id})
          /\ req' = [req EXCEPT ![p] =
                 [Idle EXCEPT !.pc = "findAccount", !.op = "deleteTransaction", !.user = u,
                    !.id = id, !.oldTx = txs[id]]]
          /\ UNCHANGED <<last, ledger, clean, types, sync, registered, rateLimit, now, calls>>
  /\ UNCHANGED <<accounts, nextAcc, nextTx>>

DeleteFindAccount(p) ==
  LET r == req[p]
      account == FindOne(accounts, r.oldTx.accountId, r.user)
  IN /\ r.pc = "findAccount" /\ r.op = "deleteTransaction"
     /\ IF account = NoId
        THEN Respond(p, 200)
        ELSE /\ req' = [req EXCEPT ![p].pc = "save", ![p].account = account,
                          ![p].balance = Reverted(accounts[account].balance, r.oldTx),
                          ![p].deltas = <<<<account, 0 - Effect(r.oldTx.type, r.oldTx.amount)>>>>]
             /\ UNCHANGED <<last, ledger, clean, types, sync, registered, rateLimit, now, calls>>
     /\ UNCHANGED <<accounts, txs, nextAcc, nextTx, served>>

DeleteSave(p) ==
  LET r == req[p] IN
  /\ r.pc = "save" /\ r.op = "deleteTransaction"
  /\ SaveAccountDoc(r.account, r.balance)
  /\ Respond(p, IF SaveSucceeds(r.account, r.balance) THEN 200 ELSE 400)
  /\ UNCHANGED <<txs, nextAcc, nextTx, served>>

\* --- router.post('/transfer')
TransferArrive(p, u, source, target, amount) ==
  /\ Arrive(p)
  /\ amount > 0 /\ source # target
  /\ req' = [req EXCEPT ![p] =
         [Idle EXCEPT !.pc = "finds", !.op = "postTransfer", !.user = u,
            !.body = PutBody({source}, {amount}, {}, {}), !.id = target,
            !.pending = {"source", "target"}]]
  /\ UNCHANGED <<accounts, txs, nextAcc, nextTx, last, ledger, clean, types, sync, registered, rateLimit, now, calls>>

\* One of the two reads of Promise.all([Account.findOne, Account.findOne]).
TransferFind(p, which) ==
  LET r == req[p]
      wanted == IF which = "source" THEN Val(r.body.accountId) ELSE r.id
      found == FindOne(accounts, wanted, r.user)
      amount == Val(r.body.amount)
      r2 == IF which = "source"
            THEN [r EXCEPT !.account = found,
                           !.balance = IF found = NoId THEN 0 ELSE accounts[found].balance - amount]
            ELSE [r EXCEPT !.target = found,
                           !.targetBalance = IF found = NoId THEN 0 ELSE accounts[found].balance + amount]
  IN /\ r.pc = "finds" /\ r.op = "postTransfer"
     /\ which \in r.pending
     /\ IF r.pending # {which}
        THEN /\ req' = [req EXCEPT ![p] = [r2 EXCEPT !.pending = @ \ {which}]]
             /\ UNCHANGED <<last, ledger, clean, types, sync, registered, rateLimit, now, calls>>
        ELSE IF r2.account = NoId \/ r2.target = NoId
        THEN Respond(p, 404)
        ELSE /\ req' = [req EXCEPT ![p] =
                    [r2 EXCEPT !.pc = "createExpense", !.pending = {},
                       !.deltas = <<<<r2.account, 0 - amount>>, <<r2.target, amount>>>>]]
             /\ UNCHANGED <<last, ledger, clean, types, sync, registered, rateLimit, now, calls>>
     /\ UNCHANGED <<accounts, txs, nextAcc, nextTx, served>>

TransferCreate(p) ==
  LET r == req[p]
      expense == r.pc = "createExpense"
      tx == Stored([user |-> r.user, accountId |-> IF expense THEN r.account ELSE r.target,
                    amount |-> Val(r.body.amount),
                    type |-> IF expense THEN "expense" ELSE "income",
                    category |-> "Transfer",
                    balanceAt |-> IF expense THEN r.balance ELSE r.targetBalance])
  IN /\ r.pc \in {"createExpense", "createIncome"} /\ r.op = "postTransfer"
     /\ txs' = txs @@ (nextTx :> tx)
     /\ nextTx' = nextTx + 1
     /\ req' = [req EXCEPT ![p].pc = IF expense THEN "createIncome" ELSE "saves",
                           ![p].pending = IF expense THEN {} ELSE {"source", "target"}]
     /\ UNCHANGED <<accounts, nextAcc, served, last, ledger, clean, types, sync, registered, rateLimit, now, calls>>

\* One of the two saves of Promise.all([sourceAccount.save(), targetAccount.save()]).
TransferSave(p, which) ==
  LET r == req[p]
      id == IF which = "source" THEN r.account ELSE r.target
      b == IF which = "source" THEN r.balance ELSE r.targetBalance
      failed == r.failed \/ ~SaveSucceeds(id, b)
  IN /\ r.pc = "saves" /\ r.op = "postTransfer"
     /\ which \in r.pending
     /\ SaveAccountDoc(id, b)
     /\ IF r.pending = {which}
        THEN Respond(p, IF failed THEN 400 ELSE 201)
        ELSE /\ req' = [req EXCEPT ![p].pending = @ \ {which}, ![p].failed = failed]
             /\ UNCHANGED <<last, ledger, clean, types, sync, registered, rateLimit, now, calls>>
     /\ UNCHANGED <<txs, nextAcc, nextTx, served>>

\* --- router.put('/transactions/:id')
PutFindOne(p, u, id, body) ==
  /\ Arrive(p)
  /\ IF FindOne(txs, id, u) = NoId
     THEN RespondAtOnce(p, "putTransaction", 404)
     ELSE /\ req' = [req EXCEPT ![p] =
                 [Idle EXCEPT !.pc = "findAccount", !.op = "putTransaction", !.user = u,
                    !.id = id, !.body = body, !.oldTx = txs[id]]]
          /\ UNCHANGED <<last, ledger, clean, types, sync, registered, rateLimit, now, calls>>
  /\ UNCHANGED <<accounts, txs, nextAcc, nextTx>>

PutFindAccount(p) ==
  LET r == req[p]
      account == FindOne(accounts, r.oldTx.accountId, r.user)
  IN /\ r.pc = "findAccount" /\ r.op = "putTransaction"
     /\ req' = [req EXCEPT ![p].pc = "update", ![p].account = account,
                  ![p].balance = IF account = NoId THEN 0
                                 ELSE Reverted(accounts[account].balance, r.oldTx)]
     /\ UNCHANGED <<accounts, txs, nextAcc, nextTx, served, last, ledger, clean, types, sync, registered, rateLimit, now, calls>>

\* What follows once the target account is known: apply the new effect and
\* save the target, or save only the revert, or answer.
PutAfterTarget(p, r, target) ==
  IF target # NoId
  THEN IF r.updatedTx = NoTx
       THEN \* updatedTx is null: reading updatedTx.type throws
            Respond(p, 400)
       ELSE LET applied == Effect(r.updatedTx.type, r.updatedTx.amount)
                base == IF target = r.account THEN r.balance ELSE accounts[target].balance
            IN /\ req' = [req EXCEPT ![p] =
                      [r EXCEPT !.pc = "saveTarget", !.target = target,
                         !.targetBalance = base + applied,
                         !.deltas = (IF r.account = NoId THEN <<>>
                                     ELSE <<<<r.account, 0 - Effect(r.oldTx.type, r.oldTx.amount)>>>>)
                                    \o <<<<target, applied>>>>]]
               /\ UNCHANGED <<last, ledger, clean, types, sync, registered, rateLimit, now, calls>>
  ELSE IF r.account # NoId
  THEN /\ req' = [req EXCEPT ![p] =
              [r EXCEPT !.pc = "saveAccount",
                 !.deltas = <<<<r.account, 0 - Effect(r.oldTx.type, r.oldTx.amount)>>>>]]
       /\ UNCHANGED <<last, ledger, clean, types, sync, registered, rateLimit, now, calls>>
  ELSE Respond(p, 200)

\* Transaction.findByIdAndUpdate(req.params.id, req.body, {new: true}): null
\* when the record is gone.
PutFindByIdAndUpdate(p) ==
  LET r == req[p]
      present == r.id \in DOMAIN txs
      updatedTx == IF present THEN UpdatedTx(txs[r.id], r.body) ELSE NoTx
      r2 == [r EXCEPT !.updatedTx = updatedTx]
  IN /\ r.pc = "update" /\ r.op = "putTransaction"
     /\ txs' = IF present THEN [txs EXCEPT ![r.id] = updatedTx] ELSE txs
     /\ IF Has(r.body.accountId) /\ Val(r.body.accountId) # r.oldTx.accountId
        THEN /\ req' = [req EXCEPT ![p] = [r2 EXCEPT !.pc = "findTarget"]]
             /\ UNCHANGED <<last, ledger, clean, types, sync, registered, rateLimit, now, calls>>
        ELSE PutAfterTarget(p, r2, r.account)
     /\ UNCHANGED <<accounts, nextAcc, nextTx, served>>

PutFindTarget(p) ==
  LET r == req[p] IN
  /\ r.pc = "findTarget" /\ r.op = "putTransaction"
  /\ PutAfterTarget(p, r, FindOne(accounts, Val(r.body.accountId), r.user))
  /\ UNCHANGED <<accounts, txs, nextAcc, nextTx, served>>

PutSaveTarget(p) ==
  LET r == req[p] IN
  /\ r.pc = "saveTarget" /\ r.op = "putTransaction"
  /\ SaveAccountDoc(r.target, r.targetBalance)
  /\ IF ~SaveSucceeds(r.target, r.targetBalance) THEN Respond(p, 400)
     ELSE IF r.account # NoId /\ r.account # r.target
     THEN /\ req' = [req EXCEPT ![p].pc = "saveAccount"]
          /\ UNCHANGED <<last, ledger, clean, types, sync, registered, rateLimit, now, calls>>
     ELSE Respond(p, 200)
  /\ UNCHANGED <<txs, nextAcc, nextTx, served>>

PutSaveAccount(p) ==
  LET r == req[p] IN
  /\ r.pc = "saveAccount" /\ r.op = "putTransaction"
  /\ SaveAccountDoc(r.account, r.balance)
  /\ Respond(p, IF SaveSucceeds(r.account, r.balance) THEN 200 ELSE 400)
  /\ UNCHANGED <<txs, nextAcc, nextTx, served>>

\* --- router.delete('/transactions/bulk-delete') and
\* --- router.delete('/transactions/delete-all'), one store call per step.
\* In the worker's locals, `found` is the result of Transaction.find, `ops`
\* is bulkOps (one <<accountId, adjustment>> per key of balanceAdjustments),
\* `count` is the deletedCount of the response, and `removed` records how many
\* documents the request's deleteMany took out of the store (history).

\* Object.entries(balanceAdjustments).map(...): one updateOne per account id
\* in `todo`, carrying the adjustment summed over the found documents.  The
\* increments are on distinct accounts, so the order of the entries (insertion
\* order in the code, ascending id here) does not change the result.
RECURSIVE OpsFor(_, _, _)
OpsFor(t, found, todo) ==
  IF todo = {} THEN <<>>
  ELSE LET a == CHOOSE x \in todo : \A y \in todo : x <= y
       IN <<<<a, BalanceAdjustment(t, found, a)>>>> \o OpsFor(t, found, todo \ {a})

\* bulkOps computed from the documents the find returned: balanceAdjustments
\* has one key per accountId that occurs among them.
BulkOps(found) ==
  OpsFor(txs, found, {txs[i].accountId : i \in found})

\* The total $inc the operations of a bulkWrite carry for account a.
RECURSIVE IncFor(_, _)
IncFor(ops, a) ==
  IF ops = <<>> THEN 0
  ELSE (IF Head(ops)[1] = a THEN Head(ops)[2] ELSE 0) + IncFor(Tail(ops), a)

BulkFind(p, u, ids) ==
  LET transactions == {i \in ids \cap DOMAIN txs : txs[i].user = u} IN
  /\ Arrive(p)
  /\ IF ids = {} THEN RespondAtOnce(p, "bulkDelete", 400)
     ELSE IF transactions = {} THEN RespondAtOnce(p, "bulkDelete", 404)
     ELSE /\ req' = [req EXCEPT ![p] =
                 [Idle EXCEPT !.pc = "bulkWrite", !.op = "bulkDelete", !.user = u,
                    !.ids = ids, !.found = transactions,
                    !.ops = BulkOps(transactions)]]
          /\ UNCHANGED <<last, ledger, clean, types, sync, registered, rateLimit, now, calls>>
  /\ UNCHANGED <<accounts, txs, nextAcc, nextTx>>

AllFind(p, u) ==
  LET transactions == {i \in DOMAIN txs : txs[i].user = u} IN
  /\ Arrive(p)
  /\ req' = [req EXCEPT ![p] =
         IF transactions = {}
         THEN \* 'No transactions to delete', deletedCount: 0
              [Idle EXCEPT !.pc = "respond", !.op = "deleteAll", !.user = u]
         ELSE [Idle EXCEPT !.pc = "bulkWrite", !.op = "deleteAll", !.user = u,
                 !.found = transactions, !.ops = BulkOps(transactions)]]
  /\ UNCHANGED <<accounts, txs, nextAcc, nextTx, last, ledger, clean, types, sync, registered, rateLimit, now, calls>>

\* Account.bulkWrite(bulkOps): each updateOne matches {_id, user} and applies
\* its $inc to the stored balance; an operation that matches no account (the
\* account is gone) changes nothing.
BulkWriteStep(p) ==
  LET r == req[p] IN
  /\ r.pc = "bulkWrite"
  /\ accounts' = [a \in DOMAIN accounts |->
                    IF accounts[a].user = r.user
                    THEN [accounts[a] EXCEPT !.balance = @ + IncFor(r.ops, a)]
                    ELSE accounts[a]]
  /\ req' = [req EXCEPT ![p].pc = "deleteMany"]
  /\ UNCHANGED <<txs, nextAcc, nextTx, served, last, ledger, clean, types, sync, registered, rateLimit, now, calls>>

\* Transaction.deleteMany({ _id: { $in: ids }, user }); the response carries
\* deletedCount: transactions.length.
BulkDeleteMany(p) ==
  LET r == req[p]
      gone == {i \in r.ids \cap DOMAIN txs : txs[i].user = r.user}
  IN /\ r.pc = "deleteMany" /\ r.op = "bulkDelete"
     /\ txs' = Remove(txs, gone)
     /\ req' = [req EXCEPT ![p].pc = "respond", ![p].removed = Cardinality(gone),
                           ![p].count = Cardinality(r.found)]
     /\ UNCHANGED <<accounts, nextAcc, nextTx, served, last, ledger, clean, types, sync, registered, rateLimit, now, calls>>

\* Transaction.deleteMany({ user }); the response carries
\* deletedCount: result.deletedCount.
AllDeleteMany(p) ==
  LET r == req[p]
      gone == {i \in DOMAIN txs : txs[i].user = r.user}
  IN /\ r.pc = "deleteMany" /\ r.op = "deleteAll"
     /\ txs' = Remove(txs, gone)
     /\ req' = [req EXCEPT ![p].pc = "respond", ![p].removed = Cardinality(gone),
                           ![p].count = Cardinality(gone)]
     /\ UNCHANGED <<accounts, nextAcc, nextTx, served, last, ledger, clean, types, sync, registered, rateLimit, now, calls>>

\* res.json({ message, deletedCount })
DeleteRespond(p) ==
  /\ req[p].pc = "respond"
  /\ Respond(p, 200)
  /\ UNCHANGED <<accounts, txs, nextAcc, nextTx, served>>

\* --- router.delete('/accounts/:id'), one store call per step.
AccountFindOneAndDelete(p, u, id) ==
  /\ Arrive(p)
  /\ IF FindOne(accounts, id, u) = NoId
     THEN /\ RespondAtOnce(p, "deleteAccount", 404)
          /\ UNCHANGED accounts
     ELSE /\ accounts' = Remove(accounts, {id})
          /\ req' = [req EXCEPT ![p] =
                 [Idle EXCEPT !.pc = "deleteMany", !.op = "deleteAccount", !.user = u,
                    !.id = id]]
          /\ UNCHANGED <<last, ledger, clean, types, sync, registered, rateLimit, now, calls>>
  /\ UNCHANGED <<txs, nextAcc, nextTx>>

AccountDeleteMany(p) ==
  LET r == req[p] IN
  /\ r.pc = "deleteMany" /\ r.op = "deleteAccount"
  /\ txs' = Remove(txs, Cascade(txs, r.id, r.user))
  /\ Respond(p, 200)
  /\ UNCHANGED <<accounts, nextAcc, nextTx, served>>

\* --- a store call that rejects (connection lost, write refused): the await
\* throws and the handler's catch, or asyncHandler and errorHandler, answers.
\* Of the calls a Promise.all has started, the others stay in flight.
WritePcs ==
  {"saves", "save", "saveTarget", "saveAccount", "update", "createExpense",
   "createIncome", "bulkWrite", "deleteMany"}

ErrorStatus(op) == IF op \in {"postTransactions", "postTransfer"} THEN 500 ELSE 400

StoreRejects(p) ==
  LET r == req[p] IN
  /\ r.pc \in WritePcs
  /\ IF r.pc = "saves"
     THEN \E which \in r.pending :
            IF r.pending = {which}
            THEN Respond(p, ErrorStatus(r.op))
            ELSE /\ req' = [req EXCEPT ![p].pending = @ \ {which}, ![p].failed = TRUE]
                 /\ UNCHANGED <<last, ledger, clean, types, sync, registered, rateLimit, now, calls>>
     ELSE Respond(p, ErrorStatus(r.op))
  /\ UNCHANGED <<accounts, txs, nextAcc, nextTx, served>>

\* --- router.post('/sync'), one batch entry per step.  The handler walks
\* req.body.accountTypes, req.body.accounts and req.body.transactions in
\* this order and looks at one entry at a time, so the entries of the body
\* are drawn as the loops reach them.  Every entry counts as a request
\* against MaxRequests, which bounds the length of the batch.

\* Client-local account ids of the batch's accounts.
LocalIds == {"a", "b"}
\* Account references of the batch's transactions: a client-local id, "z"
\* (an id no account of the batch carries), or a key every JavaScript object
\* inherits.
TxRefs == LocalIds \cup {"z"} \cup InheritedKeys
SyncNames == {"Vault", " Vault", "Cash"}
SyncBalances == {0, 0 - 1}
Labels == {"Bank", " Bank"}
Themes == {"blue", "neon"}
\* accountTypeSchema.theme: enum (one member stands for the seven).
ThemeEnum == {"blue"}

\* trim: true of the String paths: applied to the value that is stored and
\* to the value a query filters by.
Trim(s) ==
  IF s = " Vault" THEN "Vault" ELSE IF s = " Bank" THEN "Bank" ELSE s

SyncAccounts == [id : LocalIds, name : SyncNames, balance : SyncBalances]
SyncTransactions == [accountId : TxRefs, amount : BodyAmounts, type : TxTypes]
SyncTypes == [label : Labels, theme : Themes]

\* An account lookup by name that finds nothing.
FindByNameNothing(accs, u, name) == NoId

\* Account.findOne({ user: userId, name: acc.name }): the id of the oldest
\* match, or NoId.
FindByName(accs, u, name) ==
  LET m == {a \in DOMAIN accs : accs[a].user = u /\ accs[a].name = Trim(name)}
  IN IF m = {} THEN NoId ELSE CHOOSE a \in m : \A b \in m : a <= b

\* One pass of the accounts loop: reuse the account of that name or create
\* it; Account.create validates the balance and throws when it is negative.
SyncAccountRun(accs, nAcc, u, acc) ==
  LET found == FindByName(accs, u, acc.name) IN
  IF found # NoId
  THEN [accounts |-> accs, nextAcc |-> nAcc, target |-> found, ok |-> TRUE]
  ELSE IF ~BalanceValid(acc.balance)
  THEN [accounts |-> accs, nextAcc |-> nAcc, target |-> NoId, ok |-> FALSE]
  ELSE [accounts |-> accs @@ (nAcc :> [user |-> u, name |-> Trim(acc.name),
                                       balance |-> acc.balance]),
        nextAcc |-> nAcc + 1, target |-> nAcc, ok |-> TRUE]

\* The accounts loop over a whole list, up to its first throw.
RECURSIVE SyncAccountsRun(_, _, _, _)
SyncAccountsRun(accs, nAcc, u, batch) ==
  IF batch = <<>> THEN [accounts |-> accs, nextAcc |-> nAcc]
  ELSE LET r == SyncAccountRun(accs, nAcc, u, Head(batch))
       IN IF r.ok THEN SyncAccountsRun(r.accounts, r.nextAcc, u, Tail(batch))
          ELSE [accounts |-> r.accounts, nextAcc |-> r.nextAcc]

\* AccountType.findOne({ user: userId, label: type.label })
TypeExists(ts, u, label) ==
  \E k \in 1..Len(ts) : ts[k].user = u /\ ts[k].label = Trim(label)

\* AccountType.create of a document that passes the schema's validation.
TypeCreated(ts, u, type) == Append(ts, [user |-> u, label |-> Trim(type.label)])

\* One pass of the account-types loop: skip a label the owner has; else
\* create, and when the create throws (theme outside the enum) catch and go on.
SyncTypeRun(ts, u, type) ==
  IF TypeExists(ts, u, type.label) THEN ts
  ELSE IF type.theme \notin ThemeEnum THEN ts
  ELSE TypeCreated(ts, u, type)

RECURSIVE SyncTypesRun(_, _, _)
SyncTypesRun(ts, u, batch) ==
  IF batch = <<>> THEN ts
  ELSE SyncTypesRun(SyncTypeRun(ts, u, Head(batch)), u, Tail(batch))

\* transactionSchema: amount min 0.01, type in the enum (run by create).
SchemaValid(tx) == tx.amount >= 1 /\ tx.type \in TxTypes

\* The handler's locals.  map is accountMap (NoId: no such key), count is
\* newTransactionsCount, syncedAccounts is what the response carries; typs
\* and accs are the entries consumed so far, before is the set of accounts
\* that existed when the request arrived and firstTx the next transaction
\* id at that time (history).
SyncIdle ==
  [pc |-> "idle", user |-> "", map |-> [l \in LocalIds |-> NoId], count |-> 0,
   syncedAccounts |-> 0, typs |-> <<>>, accs |-> <<>>, before |-> {}, firstTx |-> 1]

\* The next entry of a list of the body.
SyncEntry ==
  /\ served < MaxRequests
  /\ served' = served + 1

\* Object.keys(accountMap)
MappedIds(map) == {l \in LocalIds : map[l] # NoId}

SyncArrive(u) ==
  /\ sync.pc = "idle"
  /\ served < MaxRequests
  /\ served' = served + 1
  /\ sync' = [SyncIdle EXCEPT !.pc = "types", !.user = u, !.before = DOMAIN accounts,
                              !.firstTx = nextTx]
  /\ UNCHANGED <<accounts, txs, nextAcc, nextTx, last, types, req, ledger, clean, registered, rateLimit, now, calls>>

SyncType(type) ==
  /\ sync.pc = "types"
  /\ SyncEntry
  /\ types' = SyncTypeRun(types, sync.user, type)
  /\ sync' = [sync EXCEPT !.typs = Append(@, type)]
  /\ UNCHANGED <<accounts, txs, nextAcc, nextTx, last, req, ledger, clean, registered, rateLimit, now, calls>>

\* The end of a list (for the account types also: no list in the body).
SyncListDone ==
  /\ sync.pc \in {"types", "accounts"}
  /\ sync' = [sync EXCEPT !.pc = IF sync.pc = "types" THEN "accounts" ELSE "transactions"]
  /\ UNCHANGED <<accounts, txs, nextAcc, nextTx, served, last, types, req, ledger, clean, registered, rateLimit, now, calls>>

\* catch (error): res.status(500).json({ message: 'Sync failed' })
SyncFailed ==
  /\ last' = Req("sync", 500, "")
  /\ sync' = [sync EXCEPT !.pc = "idle"]

SyncAccount(acc) ==
  LET r == SyncAccountRun(accounts, nextAcc, sync.user, acc) IN
  /\ sync.pc = "accounts"
  /\ SyncEntry
  /\ accounts' = r.accounts
  /\ nextAcc' = r.nextAcc
  /\ IF r.ok
     THEN /\ sync' = [sync EXCEPT !.map[acc.id] = r.target, !.accs = Append(@, acc)]
          /\ UNCHANGED last
     ELSE SyncFailed
  /\ UNCHANGED <<txs, nextTx, types, req, ledger, clean, registered, rateLimit, now, calls>>

\* One pass of the transactions loop.  accountMap is a plain object, so
\* accountMap[tx.accountId] of an inherited key is a function, which is
\* truthy and which Transaction.create cannot cast to an ObjectId.
SyncTransaction(tx) ==
  LET realAccountId == IF tx.accountId \in LocalIds THEN sync.map[tx.accountId] ELSE NoId
      truthy == realAccountId # NoId \/ tx.accountId \in InheritedKeys
      created == realAccountId # NoId /\ SchemaValid(tx)
  IN /\ sync.pc = "transactions"
     /\ SyncEntry
     /\ IF created
        THEN /\ txs' = txs @@ (nextTx :> Stored([user |-> sync.user, accountId |-> realAccountId,
                                                 amount |-> tx.amount, type |-> tx.type,
                                                 category |-> "Food", balanceAt |-> 0]))
             /\ nextTx' = nextTx + 1
        ELSE UNCHANGED <<txs, nextTx>>
     /\ IF truthy /\ ~created
        THEN SyncFailed
        ELSE /\ sync' = [sync EXCEPT !.count = IF created THEN @ + 1 ELSE @]
             /\ UNCHANGED last
     /\ UNCHANGED <<accounts, nextAcc, types, req, ledger, clean, registered, rateLimit, now, calls>>

\* res.json({ message: 'Sync successful', syncedAccounts, newTransactions })
SyncRespond ==
  /\ sync.pc = "transactions"
  /\ last' = Req("sync", 200, "")
  /\ sync' = [sync EXCEPT !.pc = "idle",
                          !.syncedAccounts = Cardinality(MappedIds(sync.map))]
  /\ UNCHANGED <<accounts, txs, nextAcc, nextTx, served, types, req, ledger, clean, registered, rateLimit, now, calls>>

\* --- router.post('/register') (authRoutes.js): create the user, seed its
\* default account types and accounts, answer.
\* Users that register while the behaviour runs (Users registered before).
NewUsers == {"u3"}
\* defaultTypes and defaultAccounts (two of each stand for the four).
DefaultTypes == <<"Family", "Salary">>
DefaultAccounts == <<"Family Vault", "Salary Account">>

\* A status that reports a seeding that did not complete.
RegisterStatusSeeded(k, j) ==
  IF k = Len(DefaultTypes) /\ j = Len(DefaultAccounts) THEN 201 ELSE 500

\* sendTokenResponse(user, 201, res) follows the try/catch of the seeding:
\* the status does not depend on how many documents were seeded.
RegisterStatus(k, j) == 201

\* insertMany is ordered: it stops at the first document the store refuses.
\* k default types and, when all of them went in, j default accounts are
\* inserted before the seeding throws or completes.
Register(u, k, j) ==
  /\ sync.pc = "idle"
  /\ served < MaxRequests
  /\ served' = served + 1
  /\ IF u \in registered
     THEN /\ last' = Req("register", 400, "")
          /\ UNCHANGED <<registered, types, accounts, nextAcc>>
     ELSE LET seeded == IF k = Len(DefaultTypes) THEN j ELSE 0 IN
          /\ registered' = registered \cup {u}
          /\ types' = types \o [i \in 1..k |-> [user |-> u, label |-> DefaultTypes[i]]]
          /\ accounts' = accounts @@
                [a \in nextAcc..(nextAcc + seeded - 1) |->
                   [user |-> u, name |-> DefaultAccounts[a - nextAcc + 1], balance |-> 0]]
          /\ nextAcc' = nextAcc + seeded
          /\ last' = Req("register", RegisterStatus(k, j),
                         IF seeded = Len(DefaultAccounts) THEN "" ELSE "seeding failed")
  /\ UNCHANGED <<txs, nextTx, req, ledger, clean, sync, rateLimit, now, calls>>

\* ------------------------------------------------ middleware/rateLimiter.js
\* Client identifiers (req.ip).
Clients == {"ip1", "ip2"}

\* The limiters the module creates: createRateLimiter(windowMs, maxRequests).
authLimiter == [name |-> "authLimiter", windowMs |-> 15 * 60 * 1000, maxRequests |-> 5]
apiLimiter == [name |-> "apiLimiter", windowMs |-> 15 * 60 * 1000, maxRequests |-> 100]
strictLimiter == [name |-> "strictLimiter", windowMs |-> 60 * 1000, maxRequests |-> 3]
Limiters == {authLimiter, apiLimiter, strictLimiter}

\* The time that passes before a request arrives: within the window, at its
\* resetTime, just after it, and long after it.
Delays == {1, 15 * 60 * 1000, 15 * 60 * 1000 + 1, 2 * 15 * 60 * 1000 + 1}

\* The time that passes between two limiters of one middleware chain.
ChainDelays == {0, 1}

\* rateLimit.has(identifier) and rateLimit.get(identifier).
HasKey(map, identifier) == \E e \in map : e.key = identifier
Entry(map, identifier) == CHOOSE e \in map : e.key = identifier

\* "Clean old entries": every key whose resetTime < now - windowMs is deleted.
Cleaned(map, t, windowMs) == {e \in map : ~(e.resetTime < t - windowMs)}

\* A limiter that does not count.
IncrementedNot(count) == count

\* userData.count++
Incremented(count) == count + 1

\* The middleware createRateLimiter returns, called at time t for a request
\* of `identifier`: the Map afterwards, whether next() was called (otherwise
\* the answer is 429), and whether the call started a window.
RateLimiter(L, map, identifier, t) ==
  LET kept == Cleaned(map, t, L.windowMs)
      started == [key |-> identifier, count |-> 1, resetTime |-> t + L.windowMs]
  IN IF ~HasKey(kept, identifier)
     THEN [rateLimit |-> kept \cup {started}, admit |-> TRUE, fresh |-> TRUE]
     ELSE LET userData == Entry(kept, identifier)
              rest == kept \ {userData}
          IN IF t > userData.resetTime
             THEN [rateLimit |-> rest \cup {started}, admit |-> TRUE, fresh |-> TRUE]
             ELSE LET count == Incremented(userData.count) IN
                  [rateLimit |-> rest \cup {[userData EXCEPT !.count = count]},
                   admit |-> ~(count > L.maxRequests), fresh |-> FALSE]

\* The calls of the current windows after limiter L handled a request of
\* `identifier` with result r: a call that started a window starts the list,
\* and the list of a key the cleanup deleted is dropped (history).
Logged(cs, L, route, identifier, r) ==
  LET call == [limiter |-> L.name, route |-> route, admit |-> r.admit] IN
  [k \in Clients |->
     IF k = identifier THEN (IF r.fresh THEN <<call>> ELSE Append(cs[k], call))
     ELSE IF HasKey(r.rateLimit, k) THEN cs[k] ELSE <<>>]

\* One call of limiter L on its own: res.status(429) or next().
Limit(L, identifier, d) ==
  LET t == now + d
      r == RateLimiter(L, rateLimit, identifier, t)
  IN /\ served < MaxRequests
     /\ served' = served + 1
     /\ now' = t
     /\ rateLimit' = r.rateLimit
     /\ calls' = Logged(calls, L, "limited", identifier, r)
     /\ last' = IF r.admit THEN last ELSE Req("limited", 429, "")
     /\ UNCHANGED <<accounts, txs, nextAcc, nextTx, req, ledger, clean, types, sync,
                    registered>>

\* A request to a route under /api that has no limiter of its own (server.js
\* 67): apiLimiter, then the route.
ApiRequest(identifier, d) ==
  LET t == now + d
      r == RateLimiter(apiLimiter, rateLimit, identifier, t)
  IN /\ served < MaxRequests
     /\ served' = served + 1
     /\ now' = t
     /\ rateLimit' = r.rateLimit
     /\ calls' = Logged(calls, apiLimiter, "api", identifier, r)
     /\ last' = IF r.admit THEN last ELSE Req("api", 429, "")
     /\ UNCHANGED <<accounts, txs, nextAcc, nextTx, req, ledger, clean, types, sync,
                    registered>>

\* POST /api/auth/register or /api/auth/login: apiLimiter (server.js 67), then
\* authLimiter (authRoutes.js 39, 111), then validation and the handler.  The
\* chain is synchronous: no other request is handled between the two limiters.
AuthRequest(identifier, d, e) ==
  LET t == now + d
      api == RateLimiter(apiLimiter, rateLimit, identifier, t)
      afterApi == Logged(calls, apiLimiter, "auth", identifier, api)
      auth == RateLimiter(authLimiter, api.rateLimit, identifier, t + e)
  IN /\ served < MaxRequests
     /\ served' = served + 1
     /\ IF api.admit
        THEN /\ now' = t + e
             /\ rateLimit' = auth.rateLimit
             /\ calls' = Logged(afterApi, authLimiter, "auth", identifier, auth)
             /\ last' = IF auth.admit THEN last ELSE Req("auth", 429, "")
        ELSE /\ now' = t
             /\ rateLimit' = api.rateLimit
             /\ calls' = afterApi
             /\ last' = Req("auth", 429, "")
     /\ UNCHANGED <<accounts, txs, nextAcc, nextTx, req, ledger, clean, types, sync,
                    registered>>

Init ==
  /\ accounts = <<>>
  /\ txs = <<>>
  /\ nextAcc = 1
  /\ nextTx = 1
  /\ served = 0
  /\ last = Req("none", 0, "")
  /\ req = [p \in Procs |-> Idle]
  /\ ledger = <<>>
  /\ clean = TRUE
  /\ types = <<>>
  /\ sync = SyncIdle
  /\ registered = {}
  /\ rateLimit = {}
  /\ now = 0
  /\ calls = [k \in Clients |-> <<>>]

\* The bodies of PUT /transactions/:id that caller u sends: amount and type
\* (an absent field keeps the stored value, as sending that value does),
\* optionally an account id, optionally another owner.
PutBodies(u) ==
  {PutBody(a, {m}, {ty}, w) : a \in Opt(KnownAccIds \cup {NoId}), m \in Amounts,
                              ty \in TxTypes, w \in Opt(Users \ {u})}

\* The requests caller u can send.
NextBy(u) ==
  \/ \E name \in Names, b \in OpeningBalances : PostAccounts(u, name, b)
  \/ \E a \in KnownAccIds \cup {NoId} : DeleteAccount(u, a)
  \/ \E a \in KnownAccIds \cup {NoId}, m \in BodyAmounts, ty \in BodyTypes :
       PostTransactions(u, a, m, ty)
  \/ \E a, b \in KnownAccIds \cup {NoId}, m \in BodyAmounts : PostTransfer(u, a, b, m)
  \/ \E id \in KnownTxIds \cup {NoId}, body \in PutBodies(u) : PutTransaction(u, id, body)
  \/ \E id \in KnownTxIds \cup {NoId} : DeleteTransaction(u, id)
  \/ \E ids \in SUBSET (KnownTxIds \cup {NoId}) : BulkDelete(u, ids)

Next == \E u \in Users : NextBy(u)

Spec == Init /\ [][Next]_vars

\* Requests served one at a time, each answered with a success status, on
\* accounts created with balance 0: create, update, single delete, transfer.
NextCore ==
  /\ \E u \in Users :
       \/ \E name \in Names : PostAccounts(u, name, 0)
       \/ \E a \in KnownAccIds \cup {NoId}, m \in BodyAmounts, ty \in BodyTypes :
            PostTransactions(u, a, m, ty)
       \/ \E a, b \in KnownAccIds \cup {NoId}, m \in BodyAmounts : PostTransfer(u, a, b, m)
       \/ \E id \in KnownTxIds \cup {NoId}, body \in PutBodies(u) : PutTransaction(u, id, body)
       \/ \E id \in KnownTxIds \cup {NoId} : DeleteTransaction(u, id)
  /\ last'.status < 400

SpecCore == Init /\ [][NextCore]_vars

\* Requests of one owner served concurrently by the workers.
Owner == "u1"

NextConc ==
  \/ \E name \in Names, b \in OpeningBalances :
       OpenAccount(Owner, name, b)
  \/ \E p \in Procs :
       \/ \E a \in KnownAccIds, m \in Amounts, ty \in TxTypes : CreateFind(p, Owner, a, m, ty)
       \/ \E which \in {"transaction", "account"} : CreateSave(p, which)
       \/ \E id \in KnownTxIds : DeleteFindOneAndDelete(p, Owner, id)
       \/ DeleteFindAccount(p)
       \/ DeleteSave(p)
       \/ \E a, b \in KnownAccIds, m \in Amounts : TransferArrive(p, Owner, a, b, m)
       \/ \E which \in {"source", "target"} : TransferFind(p, which)
       \/ TransferCreate(p)
       \/ \E which \in {"source", "target"} : TransferSave(p, which)
       \/ \E id \in KnownTxIds, body \in PutBodies(Owner) : PutFindOne(p, Owner, id, body)
       \/ PutFindAccount(p)
       \/ PutFindByIdAndUpdate(p)
       \/ PutFindTarget(p)
       \/ PutSaveTarget(p)
       \/ PutSaveAccount(p)

SpecConc == Init /\ [][NextConc]_vars

\* Bulk deletes and delete-alls of two callers served concurrently, on
\* accounts and transactions created beforehand.
NextBulk ==
  \/ \E u \in Users, name \in Names : PostAccounts(u, name, 0) /\ txs = <<>>
  \/ \E u \in Users, a \in KnownAccIds, m \in Amounts, ty \in TxTypes :
       PostTransactions(u, a, m, ty) /\ last'.status = 201
  \/ \E p \in Procs, u \in Users :
       \/ \E ids \in SUBSET (KnownTxIds \cup {NoId}) : BulkFind(p, u, ids)
       \/ AllFind(p, u)
  \/ \E p \in Procs :
       \/ BulkWriteStep(p)
       \/ BulkDeleteMany(p)
       \/ AllDeleteMany(p)
       \/ DeleteRespond(p)

SpecBulk == Init /\ [][NextBulk]_vars

\* The bulk handlers over transactions of several accounts: funded accounts,
\* transactions and transfers between them, and the two bulk deletions call by
\* call.
NextBulkOps ==
  \/ \E u \in Users, name \in Names, b \in OpeningBalances :
       PostAccounts(u, name, b) /\ txs = <<>>
  \/ \E u \in Users, a \in KnownAccIds, m \in Amounts, ty \in TxTypes :
       PostTransactions(u, a, m, ty) /\ last'.status = 201
  \/ \E u \in Users, source \in KnownAccIds, target \in KnownAccIds, m \in Amounts :
       PostTransfer(u, source, target, m) /\ last'.status = 201
  \/ \E p \in Procs, u \in Users :
       \/ \E ids \in SUBSET KnownTxIds : BulkFind(p, u, ids)
       \/ AllFind(p, u)
  \/ \E p \in Procs :
       \/ BulkWriteStep(p)
       \/ BulkDeleteMany(p)
       \/ AllDeleteMany(p)
       \/ DeleteRespond(p)

SpecBulkOps == Init /\ [][NextBulkOps]_vars

\* Account maintenance: accounts under several names, transactions on them,
\* the duplicate cleanup, and account deletion call by call.
NextAccounts ==
  \/ \E u \in Users, name \in CleanupNames : PostAccounts(u, name, 0)
  \/ \E u \in Users, a \in KnownAccIds, m \in Amounts :
       PostTransactions(u, a, m, "income") /\ last'.status = 201
  \/ \E u \in Users : Cleanup(u)
  \/ \E p \in Procs, u \in Users, id \in KnownAccIds \cup {NoId} :
       AccountFindOneAndDelete(p, u, id)
  \/ \E p \in Procs : AccountDeleteMany(p)

SpecAccounts == Init /\ [][NextAccounts]_vars

\* Sync requests of two callers and registrations, served one at a time,
\* on a store that may hold accounts created through POST /accounts.
NextSync ==
  \/ \E u \in NewUsers, k \in 0..Len(DefaultTypes), j \in 0..Len(DefaultAccounts) :
       Register(u, k, j)
  \/ \E u \in Users, name \in {Trim(n) : n \in SyncNames} :
       PostAccounts(u, name, 0) /\ sync.pc = "idle"
  \/ \E u \in Users : SyncArrive(u)
  \/ \E type \in SyncTypes : SyncType(type)
  \/ SyncListDone
  \/ \E acc \in SyncAccounts : SyncAccount(acc)
  \/ \E tx \in SyncTransactions : SyncTransaction(tx)
  \/ SyncRespond

SpecSync == Init /\ [][NextSync]_vars

\* The requests that store or rewrite transactions (create, update, transfer,
\* sync) of one owner, one at a time, with every amount and type a client may
\* put in a body.
PayloadBodies ==
  {PutBody({}, m, ty, {}) : m \in Opt(BodyAmounts), ty \in Opt(BodyTypes)}

NextPayloads ==
  \/ \E name \in Names, b \in OpeningBalances :
       PostAccounts(Owner, name, b) /\ sync.pc = "idle"
  \/ \E a \in KnownAccIds, m \in BodyAmounts, ty \in BodyTypes :
       PostTransactions(Owner, a, m, ty) /\ sync.pc = "idle"
  \/ \E a, b \in KnownAccIds, m \in BodyAmounts :
       PostTransfer(Owner, a, b, m) /\ sync.pc = "idle"
  \/ \E id \in KnownTxIds, body \in PayloadBodies :
       PutTransaction(Owner, id, body) /\ sync.pc = "idle"
  \/ SyncArrive(Owner)
  \/ \E type \in SyncTypes : SyncType(type)
  \/ SyncListDone
  \/ \E acc \in SyncAccounts : SyncAccount(acc)
  \/ \E tx \in SyncTransactions : SyncTransaction(tx)
  \/ SyncRespond

SpecPayloads == Init /\ [][NextPayloads]_vars

\* The limiters called one at a time, in any order, for the requests of two
\* clients that arrive after any of the delays.
NextLimiter ==
  \E L \in Limiters, identifier \in Clients, d \in Delays : Limit(L, identifier, d)

SpecLimiter == Init /\ [][NextLimiter]_vars

\* The requests of two clients to the routes under /api as server.js and
\* authRoutes.js mount the limiters.
NextGate ==
  \/ \E identifier \in Clients, d \in Delays : ApiRequest(identifier, d)
  \/ \E identifier \in Clients, d \in Delays, e \in ChainDelays : AuthRequest(identifier, d, e)

SpecGate == Init /\ [][NextGate]_vars

\* The mutations of one owner (create, update, single delete, bulk delete,
\* transfer; amount 1, accounts opened with balance 0), one request at a time
\* and one store call per step, with store calls that may reject.
Worker == 1

NextAbort ==
  \/ \E name \in Names : OpenAccount(Owner, name, 0)
  \/ \E a \in KnownAccIds, ty \in TxTypes : CreateFind(Worker, Owner, a, 1, ty)
  \/ \E which \in {"transaction", "account"} : CreateSave(Worker, which)
  \/ \E id \in KnownTxIds : DeleteFindOneAndDelete(Worker, Owner, id)
  \/ DeleteFindAccount(Worker)
  \/ DeleteSave(Worker)
  \/ \E a, b \in KnownAccIds : TransferArrive(Worker, Owner, a, b, 1)
  \/ \E which \in {"source", "target"} : TransferFind(Worker, which)
  \/ TransferCreate(Worker)
  \/ \E which \in {"source", "target"} : TransferSave(Worker, which)
  \/ \E id \in KnownTxIds, a \in Opt(KnownAccIds), ty \in TxTypes :
       PutFindOne(Worker, Owner, id, PutBody(a, {1}, {ty}, {}))
  \/ PutFindAccount(Worker)
  \/ PutFindByIdAndUpdate(Worker)
  \/ PutFindTarget(Worker)
  \/ PutSaveTarget(Worker)
  \/ PutSaveAccount(Worker)
  \/ \E ids \in SUBSET KnownTxIds : BulkFind(Worker, Owner, ids)
  \/ BulkWriteStep(Worker)
  \/ BulkDeleteMany(Worker)
  \/ DeleteRespond(Worker)
  \/ StoreRejects(Worker)

SpecAbort == Init /\ [][NextAbort]_vars

\* Single deletes of one owner served by both workers, one store call at a
\* time, on transactions created beforehand.
NextDeletes ==
  \/ \E name \in Names, b \in OpeningBalances : OpenAccount(Owner, name, b)
  \/ \E a \in KnownAccIds, m \in Amounts, ty \in TxTypes :
       CreateFind(Worker, Owner, a, m, ty) /\ \A p \in Procs : req[p].pc = "idle"
  \/ \E which \in {"transaction", "account"} : CreateSave(Worker, which)
  \/ \E p \in Procs :
       \/ \E id \in KnownTxIds : DeleteFindOneAndDelete(p, Owner, id)
       \/ DeleteFindAccount(p)
       \/ DeleteSave(p)

SpecDeletes == Init /\ [][NextDeletes]_vars

\* Bulk deletes of one owner served by both workers while the second worker
\* also serves creations and single deletions, each one store call at a time:
\* whenever two requests overlap, one of them is a bulk delete.
NextBulkConc ==
  \/ \E name \in Names : OpenAccount(Owner, name, 0)
  \/ \E p \in Procs :
       \/ \E ids \in SUBSET KnownTxIds : BulkFind(p, Owner, ids)
       \/ BulkWriteStep(p)
       \/ BulkDeleteMany(p)
       \/ DeleteRespond(p)
  \/ \E p \in Procs \ {Worker} :
       \/ \E a \in KnownAccIds, m \in Amounts, ty \in TxTypes : CreateFind(p, Owner, a, m, ty)
       \/ \E which \in {"transaction", "account"} : CreateSave(p, which)
       \/ \E id \in KnownTxIds : DeleteFindOneAndDelete(p, Owner, id)
       \/ DeleteFindAccount(p)
       \/ DeleteSave(p)

SpecBulkConc == Init /\ [][NextBulkConc]_vars

\* ================================================================ claims
\* The signed amount of a transaction as the specification counts it.
Signed(tx) ==
  IF tx.type = "income" THEN tx.amount
  ELSE IF tx.type = "expense" THEN 0 - tx.amount
  ELSE 0

RECURSIVE SignedSum(_, _)
SignedSum(t, ids) ==
  IF ids = {} THEN 0
  ELSE LET i == CHOOSE x \in ids : TRUE IN Signed(t[i]) + SignedSum(t, ids \ {i})

Referencing(t, a) == {i \in DOMAIN t : t[i].accountId = a}

WellFormed(tx) == tx.type \in TxTypes /\ tx.amount > 0

\* C1: after any sequence of successful create, update, single-delete and
\* transfer requests served one at a time on accounts that started with
\* balance 0, every account's balance is the signed sum of the transactions
\* that reference it.
C1_BalanceIsSignedSum ==
  \A a \in DOMAIN accounts : accounts[a].balance = SignedSum(txs, Referencing(txs, a))

\* C2: when concurrent balance-affecting requests have all been answered
\* with success, every balance is its opening value plus the adjustments of
\* all of them: no adjustment is lost.
C2_NoLostAdjustment ==
  ((\A p \in Procs : req[p].pc = "idle") /\ clean) =>
    \A a \in DOMAIN accounts : accounts[a].balance = ledger[a]

\* C3: a successful create-transaction stores exactly one new record and
\* changes the named account's balance once, by +amount for income and by
\* -amount for expense; nothing else changes.
C3_CreateAdjustsOnce ==
  [][last'.op = "postTransactions" =>
     \A u \in Users, a \in KnownAccIds, m \in Amounts, ty \in TxTypes :
       (last'.status = 201 /\ PostTransactions(u, a, m, ty)) =>
         /\ nextTx \notin DOMAIN txs
         /\ DOMAIN txs' = DOMAIN txs \cup {nextTx}
         /\ \A i \in DOMAIN txs : txs'[i] = txs[i]
         /\ txs'[nextTx].user = u /\ txs'[nextTx].accountId = a
         /\ txs'[nextTx].amount = m /\ txs'[nextTx].type = ty
         /\ DOMAIN accounts' = DOMAIN accounts
         /\ accounts'[a].balance =
              accounts[a].balance + (IF ty = "income" THEN m ELSE 0 - m)
         /\ \A b \in DOMAIN accounts \ {a} : accounts'[b] = accounts[b]]_vars

C3_Witness ==
  /\ last.op = "postTransactions" /\ last.status = 201
  /\ \E i \in DOMAIN txs : txs[i].type = "expense" /\ txs[i].category = "Food"
  /\ Cardinality(DOMAIN accounts) >= 2

\* C4: a successful transfer of A from X to Y takes A from X's balance, adds
\* A to Y's balance and creates exactly two records: an expense on X and an
\* income on Y, each of amount A and category "Transfer".
C4_TransferSymmetry ==
  [][last'.op = "postTransfer" =>
     \A u \in Users, x, y \in KnownAccIds, A \in Amounts :
       (last'.status = 201 /\ PostTransfer(u, x, y, A)) =>
         LET new == DOMAIN txs' \ DOMAIN txs IN
         /\ x # y
         /\ accounts'[x].balance = accounts[x].balance - A
         /\ accounts'[y].balance = accounts[y].balance + A
         /\ \A i \in DOMAIN txs : i \in DOMAIN txs' /\ txs'[i] = txs[i]
         /\ Cardinality(new) = 2
         /\ \A i \in new : txs'[i].amount = A /\ txs'[i].category = "Transfer"
                           /\ txs'[i].user = u
         /\ Cardinality({i \in new : txs'[i].type = "expense" /\ txs'[i].accountId = x}) = 1
         /\ Cardinality({i \in new : txs'[i].type = "income" /\ txs'[i].accountId = y}) = 1]_vars

C4_Witness ==
  /\ last.op = "postTransfer" /\ last.status = 201
  /\ Cardinality({i \in DOMAIN txs : txs[i].category = "Transfer"}) = 2

\* C5: an update that moves a transaction from owned account P to another
\* owned account Q takes the old signed effect off P, puts the new signed
\* effect on Q, and leaves the transaction referencing Q.
C5_RetargetMovesEffect ==
  [][\A u \in Users, id \in KnownTxIds :
       \A body \in PutBodies(u) :
         (/\ FindOne(txs, id, u) # NoId
          /\ WellFormed(txs[id])
          /\ Has(body.accountId) /\ Val(body.accountId) # txs[id].accountId
          /\ FindOne(accounts, txs[id].accountId, u) # NoId
          /\ FindOne(accounts, Val(body.accountId), u) # NoId
          /\ PutTransaction(u, id, body))
         => LET P == txs[id].accountId
                Q == Val(body.accountId)
            IN /\ accounts'[P].balance = accounts[P].balance - Signed(txs[id])
               /\ accounts'[Q].balance = accounts[Q].balance + Signed(txs'[id])
               /\ txs'[id].accountId = Q]_vars

\* C6: an update that sends a transaction its own current values leaves
\* every account balance as it was.
C6_OwnValuesKeepBalances ==
  [][(last'.op = "putTransaction" /\ last'.note = "own values") =>
       \A id \in DOMAIN txs :
         \A body \in {b \in PutBodies(txs[id].user) : OwnValues(txs[id], b)} :
           PutTransaction(txs[id].user, id, body)
           => /\ DOMAIN accounts' = DOMAIN accounts
              /\ \A a \in DOMAIN accounts : accounts'[a].balance = accounts[a].balance]_vars

C6_Witness ==
  /\ last.op = "putTransaction" /\ last.status = 200 /\ last.note = "own values"
  /\ \E i \in DOMAIN txs :
       /\ txs[i].accountId \in DOMAIN accounts
       /\ accounts[txs[i].accountId].balance > 0

\* C7: a single delete of an owned transaction whose account exists removes
\* the record and moves the balance by minus its signed amount, also when
\* the result is negative.
C7_DeleteReverts ==
  [][\A u \in Users, id \in KnownTxIds :
       (/\ FindOne(txs, id, u) # NoId
        /\ WellFormed(txs[id])
        /\ FindOne(accounts, txs[id].accountId, u) # NoId
        /\ DeleteTransaction(u, id))
       => /\ id \notin DOMAIN txs'
          /\ accounts'[txs[id].accountId].balance =
               accounts[txs[id].accountId].balance - Signed(txs[id])]_vars

\* Single deletes of the transactions of `order`, one request after another.
RECURSIVE DeleteEach(_, _, _, _, _)
DeleteEach(accs, t, n, u, order) ==
  IF order = <<>> THEN Outcome(accs, t, n, 200)
  ELSE LET o == DeleteTransactionRun(accs, t, n, u, Head(order))
       IN DeleteEach(o.accounts, o.txs, n, u, Tail(order))

Orders(S) ==
  {s \in [1..Cardinality(S) -> S] : \A i, j \in DOMAIN s : i # j => s[i] # s[j]}

\* C8: deleting owned transactions one at a time, in any order, and deleting
\* them with one bulk delete end in the same balances and the same
\* remaining transactions.
C8_BulkEqualsSingles ==
  \A u \in Users : \A ids \in SUBSET DOMAIN txs :
    (ids # {} /\ \A i \in ids : txs[i].user = u /\ WellFormed(txs[i])) =>
      \A order \in Orders(ids) :
        LET one == DeleteEach(accounts, txs, nextTx, u, order)
            bulk == BulkDeleteRun(accounts, txs, nextTx, u, ids)
        IN one.accounts = bulk.accounts /\ one.txs = bulk.txs

\* C9: deleting a transaction and then creating one with the same account,
\* type and amount puts the account's balance back where it was.
C9_DeleteThenRecreate ==
  \A u \in Users : \A id \in DOMAIN txs :
    (/\ txs[id].user = u
     /\ WellFormed(txs[id])
     /\ FindOne(accounts, txs[id].accountId, u) # NoId) =>
      LET tx == txs[id]
          del == DeleteTransactionRun(accounts, txs, nextTx, u, id)
          new == PostTransactionRun(del.accounts, del.txs, del.nextTx, u,
                                    tx.accountId, tx.amount, tx.type)
      IN new.accounts[tx.accountId].balance = accounts[tx.accountId].balance

\* C10: a request of owner u changes or deletes no record of another owner,
\* and no record changes its owner.
C10_OwnerScoped ==
  [][\A u \in Users :
       NextBy(u) =>
         /\ \A i \in DOMAIN txs :
              /\ txs[i].user # u => (i \in DOMAIN txs' /\ txs'[i] = txs[i])
              /\ i \in DOMAIN txs' => txs'[i].user = txs[i].user
         /\ \A a \in DOMAIN accounts :
              /\ accounts[a].user # u => (a \in DOMAIN accounts' /\ accounts'[a] = accounts[a])
              /\ a \in DOMAIN accounts' => accounts'[a].user = accounts[a].user]_vars

\* C11: every record stored by a successful create-transaction or transfer
\* carries a balanceAt equal to its account's balance right after the
\* adjustment.
C11_BalanceAtStored ==
  [][(last'.op \in {"postTransactions", "postTransfer"} /\ last'.status = 201) =>
       \A i \in DOMAIN txs' \ DOMAIN txs :
         /\ "balanceAt" \in DOMAIN txs'[i]
         /\ txs'[i].balanceAt = accounts'[txs'[i].accountId].balance]_vars
\* A record the caller u cannot name: absent, or owned by someone else.
Missing(coll, id, u) == id \notin DOMAIN coll \/ coll[id].user # u

\* C12: a create-transaction that names an account which is absent or not
\* owned by the caller is refused, with NotFound (404) when the body is
\* valid, and changes no account and no transaction.
C12_CreateOnMissingAccount ==
  [][(last'.op = "postTransactions" /\ last'.note \in {"not owned", "absent"}) =>
     \/ /\ accounts' = accounts /\ txs' = txs
        /\ last'.status = 404
     \/ \A u \in Users, a \in KnownAccIds \cup {NoId}, m \in BodyAmounts, ty \in BodyTypes :
          (Missing(accounts, a, u) /\ PostTransactions(u, a, m, ty)) =>
            /\ accounts' = accounts /\ txs' = txs
            /\ last'.status >= 400
            /\ ValidTransaction(m, ty) => last'.status = 404]_vars

C12_Witness ==
  /\ last = Req("postTransactions", 404, "not owned")
  /\ accounts # <<>>

\* C13: an update that names a transaction which is absent or not owned by
\* the caller is refused with NotFound (404) and changes no account and no
\* transaction.
C13_UpdateOnMissingTransaction ==
  [][(last'.op = "putTransaction" /\ last'.note \in {"not owned", "absent"}) =>
     \/ /\ accounts' = accounts /\ txs' = txs
        /\ last'.status = 404
     \/ \A u \in Users, id \in KnownTxIds \cup {NoId} :
          Missing(txs, id, u) =>
            \A body \in PutBodies(u) : ~PutTransaction(u, id, body)]_vars

C13_Witness ==
  /\ last = Req("putTransaction", 404, "not owned")
  /\ txs # <<>>

\* C14: a single delete that names a transaction which is absent or not
\* owned by the caller reports NotFound (404), not success, and changes no
\* account and no transaction.
C14_DeleteOnMissingTransaction ==
  [][last'.op = "deleteTransaction" =>
     \A u \in Users, id \in KnownTxIds \cup {NoId} :
       (Missing(txs, id, u) /\ DeleteTransaction(u, id)) =>
         /\ accounts' = accounts /\ txs' = txs
         /\ last'.status = 404]_vars

\* C15: a transfer whose source and target are the same account is refused
\* with InvalidArgument (400), creates no transaction and changes no balance.
C15_TransferToSameAccount ==
  [][(last'.op = "postTransfer" /\ last'.note = "same account") =>
     \A u \in Users, x \in KnownAccIds, A \in BodyAmounts :
       PostTransfer(u, x, x, A) =>
         /\ accounts' = accounts /\ txs' = txs
         /\ last'.status = 400]_vars

C15_Witness ==
  /\ last = Req("postTransfer", 400, "same account")
  /\ \E a \in DOMAIN accounts : accounts[a].balance > 0

\* C16: a transfer whose source or target is absent or not owned by the
\* caller is refused with NotFound (404), creates no transaction and
\* changes no balance, also of the account that does exist.
C16_TransferOnMissingAccount ==
  [][(last'.op = "postTransfer" /\ last'.note \in {"not owned", "absent"}) =>
     \/ /\ accounts' = accounts /\ txs' = txs
        /\ last'.status = 404
     \/ \A u \in Users, x, y \in KnownAccIds \cup {NoId}, A \in Amounts :
          ~(/\ x # y
            /\ Missing(accounts, x, u) \/ Missing(accounts, y, u)
            /\ PostTransfer(u, x, y, A))]_vars

C16_Witness ==
  /\ last = Req("postTransfer", 404, "not owned")
  /\ \E a, b \in DOMAIN accounts : accounts[a].user # accounts[b].user
\* C17: the count a bulk delete or a delete-all returns is the number of
\* records the request removed from the store, also with absent or foreign
\* ids in the list and with another delete of the same records in flight.
C17_CountIsRemoved ==
  \A p \in Procs :
    (req[p].pc = "respond" /\ req[p].op \in {"bulkDelete", "deleteAll"}) =>
      req[p].count = req[p].removed
\* The caller's accounts that have an older account of the same name.
LaterDuplicates(u) ==
  {a \in DOMAIN accounts :
     /\ accounts[a].user = u
     /\ \E b \in DOMAIN accounts :
          b < a /\ accounts[b].user = u /\ accounts[b].name = accounts[a].name}

\* C18: the cleanup removes, of every group of the caller's accounts that
\* share a name, all but the oldest, together with every transaction that
\* references a removed account; all other accounts and transactions stay
\* as they were.
C18_CleanupKeepsOldest ==
  [][last'.op = "cleanup" =>
     \A u \in Users :
       Cleanup(u) =>
         /\ DOMAIN accounts' = DOMAIN accounts \ LaterDuplicates(u)
         /\ \A a \in DOMAIN accounts' : accounts'[a] = accounts[a]
         /\ DOMAIN txs' = {i \in DOMAIN txs : txs[i].accountId \notin LaterDuplicates(u)}
         /\ \A i \in DOMAIN txs' : txs'[i] = txs[i]]_vars

\* C19: the cleanup answers with the number of accounts it removed and with
\* exactly the names that more than one of the caller's accounts carried.
C19_CleanupReport ==
  [][last'.op = "cleanup" =>
     \A u \in Users :
       Cleanup(u) =>
         /\ last'.status = 200
         /\ CleanupResponse(accounts, u).deletedCount
              = Cardinality(DOMAIN accounts \ DOMAIN accounts')
         /\ CleanupResponse(accounts, u).affectedAccounts
              = {accounts[a].name : a \in LaterDuplicates(u)}]_vars

\* C20: account deletion removes the account first and its transactions
\* after; when it has answered, no transaction of the caller references the
\* account, and every other account and its transactions are as before.
C20_AccountThenTransactions ==
  [][\A p \in Procs :
       /\ (req[p].pc = "idle" /\ req'[p].pc = "deleteMany" /\ req'[p].op = "deleteAccount") =>
            /\ req'[p].id \in DOMAIN accounts
            /\ DOMAIN accounts' = DOMAIN accounts \ {req'[p].id}
            /\ \A a \in DOMAIN accounts' : accounts'[a] = accounts[a]
            /\ txs' = txs
       /\ (req[p].pc = "deleteMany" /\ req[p].op = "deleteAccount" /\ req'[p].pc = "idle") =>
            /\ req[p].id \notin DOMAIN accounts
            /\ accounts' = accounts
            /\ \A i \in DOMAIN txs' :
                 ~(txs'[i].accountId = req[p].id /\ txs'[i].user = req[p].user)
            /\ \A i \in DOMAIN txs :
                 txs[i].accountId # req[p].id => (i \in DOMAIN txs' /\ txs'[i] = txs[i])
            /\ \A i \in DOMAIN txs' : i \in DOMAIN txs]_vars

C20_Witness ==
  /\ last = Req("deleteAccount", 200, "")
  /\ nextTx > 1
  /\ txs = <<>>
  /\ accounts # <<>>

\* C21: sync is idempotent on accounts and account types: once a sync has
\* been answered, running the accounts loop and the account-types loop
\* again over the entries that sync consumed creates no account (each name
\* resolves to an account of the owner) and no account type (each label
\* exists for the owner or is refused again).
C21_SyncIdempotent ==
  (sync.pc = "idle" /\ last.op = "sync") =>
    /\ SyncAccountsRun(accounts, nextAcc, sync.user, sync.accs).accounts = accounts
    /\ SyncTypesRun(types, sync.user, sync.typs) = types

C21_Witness ==
  /\ sync.pc = "idle" /\ last = Req("sync", 200, "")
  /\ Len(sync.accs) = 2 /\ Trim(sync.accs[1].name) = Trim(sync.accs[2].name)
  /\ Cardinality(DOMAIN accounts \ sync.before) = 1
  /\ Len(sync.typs) = 1
  /\ types # <<>>

\* C22: in the transactions loop of sync, an entry whose account reference
\* is not a key of the batch's account mapping inserts nothing and raises
\* no error; any other (well-formed) entry inserts exactly one record, on
\* the mapped account; and the response carries the number of records the
\* sync inserted and the number of mapped client-local account ids.
C22_SyncTransactions ==
  [][/\ \A tx \in SyncTransactions :
          (sync.pc = "transactions" /\ SyncTransaction(tx)) =>
            IF tx.accountId \notin MappedIds(sync.map)
            THEN txs' = txs /\ last' = last /\ sync'.pc = "transactions"
            ELSE WellFormed(tx) =>
                   /\ DOMAIN txs' = DOMAIN txs \cup {nextTx}
                   /\ nextTx \notin DOMAIN txs
                   /\ \A i \in DOMAIN txs : txs'[i] = txs[i]
                   /\ txs'[nextTx].accountId = sync.map[tx.accountId]
                   /\ txs'[nextTx].user = sync.user
                   /\ txs'[nextTx].amount = tx.amount
                   /\ txs'[nextTx].type = tx.type
                   /\ last' = last /\ sync'.pc = "transactions"
     /\ (sync.pc = "transactions" /\ SyncRespond) =>
          /\ sync'.count = Cardinality({i \in DOMAIN txs : i >= sync.firstTx})
          /\ sync'.syncedAccounts = Cardinality(MappedIds(sync.map))
          /\ last'.status = 200]_vars

\* C23: a transaction that sync inserts on an account that existed before
\* the sync changes that account's stored balance by the transaction's
\* signed amount, so a balance that was the signed sum of the account's
\* transactions before the insert is their signed sum after it.
C23_SyncAdjustsBalance ==
  [][\A tx \in SyncTransactions :
       (/\ sync.pc = "transactions"
        /\ tx.accountId \in LocalIds
        /\ sync.map[tx.accountId] \in sync.before
        /\ SyncTransaction(tx)
        /\ nextTx' # nextTx) =>
         LET a == sync.map[tx.accountId] IN
         /\ accounts'[a].balance = accounts[a].balance + Signed(tx)
         /\ accounts[a].balance = SignedSum(txs, Referencing(txs, a)) =>
              accounts'[a].balance = SignedSum(txs', Referencing(txs', a))]_vars

\* A step in which a store write of worker p fails: the store rejects the
\* call, or a save does not pass (validation, document gone).
WriteFails(p) ==
  /\ req[p].pc \in WritePcs
  /\ \/ StoreRejects(p)
     \/ CreateSave(p, "account") /\ ~SaveSucceeds(req[p].account, req[p].balance)
     \/ TransferSave(p, "source") /\ ~SaveSucceeds(req[p].account, req[p].balance)
     \/ TransferSave(p, "target") /\ ~SaveSucceeds(req[p].target, req[p].targetBalance)
     \/ PutSaveTarget(p) /\ ~SaveSucceeds(req[p].target, req[p].targetBalance)
     \/ PutSaveAccount(p) /\ ~SaveSucceeds(req[p].account, req[p].balance)
     \/ DeleteSave(p) /\ ~SaveSucceeds(req[p].account, req[p].balance)

\* After the step, worker p has answered with an error, or is where it was
\* with fewer calls in flight and the failure noted.
Aborts(p) ==
  \/ req'[p].pc = "idle" /\ last'.status >= 400
  \/ /\ req'[p].failed
     /\ req'[p].pc = req[p].pc
     /\ req'[p].pending \subseteq req[p].pending
     /\ req'[p].pending # req[p].pending

\* C24: in create, update, single delete, bulk delete, delete-all and
\* transfer, a step in which a store write fails starts no further store
\* call and does not start the failed one again: the request is answered
\* with an error, or only the calls already started together with the
\* failed one remain; and from then on the request starts nothing new.
C24_FailedWriteAborts ==
  [][\A p \in Procs :
       /\ WriteFails(p) => Aborts(p)
       /\ (req[p].failed /\ req'[p] # req[p]) => Aborts(p)]_vars

C24_Witness ==
  /\ last = Req("putTransaction", 400, "")
  /\ \E a \in DOMAIN accounts : accounts[a].balance # ledger[a]

\* An account type of the batch whose create throws: the owner has no type
\* of that label and the schema refuses the document.
TypeWriteFails(type) ==
  ~TypeExists(types, sync.user, type.label) /\ type.theme \notin ThemeEnum

\* C25: a failing account-type write does not abort a sync: the handler
\* stays in its account-types loop with its locals as they were and answers
\* nothing, and no sync is answered from the account-types loop; and a
\* registration whose seeding fails part-way still creates the user and
\* answers 201.
C25_SeedingFailuresSwallowed ==
  [][/\ \A type \in SyncTypes :
          (sync.pc = "types" /\ TypeWriteFails(type) /\ SyncType(type)) =>
            /\ sync' = [sync EXCEPT !.typs = Append(@, type)]
            /\ last' = last
            /\ types' = types
     /\ ~(sync.pc = "types" /\ sync'.pc = "idle")
     /\ \A u \in NewUsers, k \in 0..Len(DefaultTypes), j \in 0..Len(DefaultAccounts) :
          (last'.op = "register" /\ u \notin registered /\ Register(u, k, j)) =>
            /\ u \in registered'
            /\ last'.status = 201]_vars

C25_Witness ==
  /\ last = Req("sync", 200, "")
  /\ \E k \in 1..Len(sync.typs) :
       /\ sync.typs[k].theme \notin ThemeEnum
       /\ ~TypeExists(types, sync.user, sync.typs[k].label)
  /\ sync.syncedAccounts > 0
  /\ \E u \in registered : \A a \in DOMAIN accounts : accounts[a].user # u

\* Whether the update in flight at worker p keeps the transaction on its
\* account: the body names no account id, or the one the record holds.
KeepsAccount(r) ==
  /\ r.op = "putTransaction"
  /\ ~Has(r.body.accountId) \/ Val(r.body.accountId) = r.oldTx.accountId

\* C26: an update that keeps the account id writes the account at most
\* once: the reads and the record update leave every balance as it is, the
\* one save writes (balance read) - old signed amount + new signed amount
\* and is followed by the response, and the revert alone is never saved.
C26_RevertAndApplyInOneSave ==
  [][\A p \in Procs :
       LET r == req[p] IN
       (KeepsAccount(r) /\ req'[p] # r) =>
         /\ r.pc \in {"findAccount", "update"} => accounts' = accounts
         /\ r.pc # "saveAccount"
         /\ r.pc = "saveTarget" =>
              /\ r.target = r.account
              /\ req'[p].pc = "idle"
              /\ \A a \in DOMAIN accounts \ {r.account} : accounts'[a] = accounts[a]
              /\ accounts' # accounts =>
                   accounts'[r.account].balance =
                     accounts[r.account].balance - Signed(r.oldTx) + Signed(r.updatedTx)
              /\ (PutSaveTarget(p) /\ BalanceValid(accounts[r.account].balance
                                                     - Signed(r.oldTx) + Signed(r.updatedTx))) =>
                   /\ accounts'[r.account].balance =
                        accounts[r.account].balance - Signed(r.oldTx) + Signed(r.updatedTx)
                   /\ last'.status = 200]_vars

C26_Witness ==
  /\ last = Req("putTransaction", 200, "")
  /\ Cardinality(DOMAIN txs) = 1
  /\ \E i \in DOMAIN txs :
       /\ txs[i].type = "income"
       /\ txs[i].accountId \in DOMAIN accounts
       /\ accounts[txs[i].accountId].balance = 2

\* C27: single delete persists the reverted balance before it removes the
\* record: in no state is the record of a delete in flight already gone
\* while the stored balance of its account still includes its effect.
C27_RevertBeforeRemove ==
  \A p \in Procs :
    (/\ req[p].op = "deleteTransaction"
     /\ req[p].id \notin DOMAIN txs
     /\ req[p].account \in DOMAIN accounts) =>
      accounts[req[p].account].balance = req[p].balance

\* C28: a single delete of a transaction whose account does not exist
\* removes exactly that record, changes no account and answers 200.
C28_DeleteWithoutAccount ==
  [][(last'.op = "deleteTransaction" /\ last'.note = "no account") =>
     \A u \in Users, id \in KnownTxIds :
       (/\ id \in DOMAIN txs
        /\ txs[id].user = u
        /\ txs[id].accountId \notin DOMAIN accounts
        /\ DeleteTransaction(u, id)) =>
         /\ DOMAIN txs' = DOMAIN txs \ {id}
         /\ \A i \in DOMAIN txs' : txs'[i] = txs[i]
         /\ accounts' = accounts
         /\ last'.status = 200]_vars

C28_Witness ==
  /\ last = Req("deleteTransaction", 200, "no account")
  /\ txs = <<>>
  /\ nextTx > 1

\* C29: bulk delete and delete-all build exactly one account write per
\* distinct account referenced by the matched transactions, each an increment
\* of the stored balance by the negated signed sum of that account's matched
\* transactions as the find returned them; the account writes are applied in
\* one step, each adding its increment to the balance the store holds then,
\* that step removes no transaction, and the single bulk removal follows it
\* and touches no account.
BulkOpNames == {"bulkDelete", "deleteAll"}

MatchedOn(found, a) == {i \in found : txs[i].accountId = a}

OpsOn(ops, a) == {k \in DOMAIN ops : ops[k][1] = a}

C29_OneIncrementPerAccount ==
  [][\A p \in Procs :
       LET r == req[p]
           r2 == req'[p]
           hit == {txs[i].accountId : i \in r2.found}
       IN (r # r2 /\ r2.op \in BulkOpNames) =>
            /\ (r.pc = "idle" /\ r2.pc = "bulkWrite") =>
                 /\ Len(r2.ops) = Cardinality(hit)
                 /\ {r2.ops[k][1] : k \in DOMAIN r2.ops} = hit
                 /\ \A k \in DOMAIN r2.ops :
                      r2.ops[k][2] = 0 - SignedSum(txs, MatchedOn(r2.found, r2.ops[k][1]))
                 /\ accounts' = accounts /\ txs' = txs
            /\ r.pc = "bulkWrite" =>
                 /\ r2.pc = "deleteMany" /\ r2.ops = r.ops
                 /\ txs' = txs
                 /\ DOMAIN accounts' = DOMAIN accounts
                 /\ \A a \in DOMAIN accounts :
                      accounts'[a].balance = accounts[a].balance
                        + (IF accounts[a].user = r.user /\ OpsOn(r.ops, a) # {}
                           THEN r.ops[CHOOSE k \in OpsOn(r.ops, a) : TRUE][2]
                           ELSE 0)
            /\ r.pc = "deleteMany" =>
                 /\ r2.pc = "respond"
                 /\ accounts' = accounts
  ]_vars

\* A bulk delete that matched transactions of two accounts has applied one
\* increment to each, and its removal is still to come.
C29_Witness ==
  \E p \in Procs :
    /\ req[p].op = "bulkDelete" /\ req[p].pc = "deleteMany"
    /\ Cardinality(req[p].found) = 2
    /\ Len(req[p].ops) = 2
    /\ \A k \in DOMAIN req[p].ops : req[p].ops[k][2] # 0
    /\ req[p].found \subseteq DOMAIN txs

\* C30: a bulk delete that overlaps a create-transaction, a single delete or
\* another bulk delete keeps the balance correct: once every request has
\* completed (and none has failed), every account's stored balance equals the
\* signed sum of the transactions that still reference it.
C30_BulkDeleteKeepsBalance ==
  (clean /\ \A p \in Procs : req[p].pc = "idle") =>
    \A a \in DOMAIN accounts :
      accounts[a].balance = SignedSum(txs, Referencing(txs, a))

\* C31: a transaction only moves absent -> present with its effect applied ->
\* absent with its effect reversed, and an update moves it from present with
\* the old effect to present with the new effect without removing it: in
\* every step, a record that appears is a new one, the balance of every
\* account changes by exactly the change of the signed sum of the records
\* that reference it, and an update leaves the set of stored records as it is.
Contribution(t, a) == SignedSum(t, Referencing(t, a))

C31_TransactionLifecycle ==
  [][/\ \A i \in DOMAIN txs' \ DOMAIN txs : i >= nextTx
     /\ \A a \in DOMAIN accounts \cap DOMAIN accounts' :
          accounts'[a].balance - accounts[a].balance
            = Contribution(txs', a) - Contribution(txs, a)
     /\ last'.op = "putTransaction" => DOMAIN txs' = DOMAIN txs
  ]_vars

\* The second half of C31 on its own: no store call of an update removes or
\* adds a record.
C31_UpdateKeepsRecord ==
  [][\A p \in Procs :
       (req[p].op = "putTransaction" /\ req'[p] # req[p]) => DOMAIN txs' = DOMAIN txs
  ]_vars

\* C32: in every reachable state, every stored transaction has a positive
\* amount and a type in {income, expense}.
C32_StoredTransactionsWellFormed ==
  \A i \in DOMAIN txs : txs[i].amount > 0 /\ txs[i].type \in {"income", "expense"}

\* C33: for a client with no earlier request in the current window, the
\* first 5 requests to an auth endpoint are admitted by the rate limiting and
\* the 6th is rejected with 429: in a window that holds only auth requests,
\* no limiter has rejected while at most 5 of them have arrived, and one of
\* them has been rejected once 6 have arrived.
AuthRequests(cs) == {i \in DOMAIN cs : cs[i].limiter = "apiLimiter"}

C33_FiveAuthRequestsAdmitted ==
  \A identifier \in Clients :
    LET cs == calls[identifier] IN
    (\A i \in DOMAIN cs : cs[i].route = "auth") =>
      /\ Cardinality(AuthRequests(cs)) <= 5 => \A i \in DOMAIN cs : cs[i].admit
      /\ Cardinality(AuthRequests(cs)) >= 6 => \E i \in DOMAIN cs : ~cs[i].admit

\* C34: every limiter admits, for every client, at most maxRequests requests
\* between the start of a window and the window's resetTime, and the first
\* request of a client that arrives after resetTime is admitted and starts a
\* new window with count 1.
AdmittedBy(L, cs) == {i \in DOMAIN cs : cs[i].limiter = L.name /\ cs[i].admit}

C34_AtMostMaxPerWindow ==
  /\ [](\A identifier \in Clients, L \in Limiters :
          Cardinality(AdmittedBy(L, calls[identifier])) <= L.maxRequests)
  /\ [][\A identifier \in Clients :
          (/\ HasKey(rateLimit, identifier)
           /\ calls'[identifier] # calls[identifier] /\ calls'[identifier] # <<>>
           /\ now' > Entry(rateLimit, identifier).resetTime) =>
            /\ Len(calls'[identifier]) = 1 /\ calls'[identifier][1].admit
            /\ HasKey(rateLimit', identifier)
            /\ Entry(rateLimit', identifier).count = 1
            /\ Entry(rateLimit', identifier).resetTime > now'
     ]_vars

\* A limiter has admitted its maxRequests requests of one client within a
\* window and has rejected the next one.
C34_Witness ==
  \E identifier \in Clients, L \in Limiters :
    LET cs == calls[identifier] IN
    /\ Cardinality(AdmittedBy(L, cs)) = L.maxRequests
    /\ cs # <<>> /\ ~cs[Len(cs)].admit /\ cs[Len(cs)].limiter = L.name
    /\ \A i \in DOMAIN cs : cs[i].limiter = L.name
    /\ now <= Entry(rateLimit, identifier).resetTime

\* C35: the stored balance of an account is never negative in any reachable
\* state.
C35_BalanceNeverNegative ==
  \A a \in DOMAIN accounts : accounts[a].balance >= 0

\* C36: in every state in which no request is in flight, every stored
\* transaction references an account that exists and has the same owner as
\* the transaction.
C36_TransactionsReferenceOwnAccount ==
  (\A p \in Procs : req[p].pc = "idle") =>
    \A i \in DOMAIN txs :
      /\ txs[i].accountId \in DOMAIN accounts
      /\ accounts[txs[i].accountId].user = txs[i].user

\* C37: a create-transaction that ends in an error persists neither the
\* transaction record nor the balance change.
C37_FailedCreatePersistsNothing ==
  [][(last'.op = "postTransactions" /\ last'.status >= 400) =>
       (txs' = txs /\ accounts' = accounts)]_vars

\* C38: when single deletes of the same transaction run concurrently, at
\* most one of them obtains the transaction and applies the reversal: no two
\* requests hold the same record, a request obtains a record only by taking
\* it out of the store, a record enters the store only when the request that
\* creates it saves it, and the request
\* that holds it writes the balance it read minus the record's effect, once.
Holds(p, id) ==
  /\ req[p].op = "deleteTransaction"
  /\ req[p].pc \in {"findAccount", "save"}
  /\ req[p].id = id

C38_OneDeleteObtains ==
  /\ [](\A p, q \in Procs, id \in KnownTxIds :
          (Holds(p, id) /\ Holds(q, id)) => p = q)
  /\ [][/\ \A i \in DOMAIN txs' \ DOMAIN txs :
             \E p \in Procs : /\ req[p].op = "postTransactions" /\ req[p].id = i
                              /\ "transaction" \in req[p].pending
        /\ \A p \in Procs, id \in KnownTxIds :
             /\ (~Holds(p, id) /\ Holds(p, id)') =>
                  (id \in DOMAIN txs /\ id \notin DOMAIN txs' /\ req'[p].oldTx = txs[id])
             /\ (Holds(p, id) /\ req[p].pc = "findAccount" /\ req'[p].pc = "save") =>
                  /\ req'[p].account = req[p].oldTx.accountId
                  /\ req'[p].balance
                       = accounts[req'[p].account].balance - Signed(req[p].oldTx)
                  /\ accounts' = accounts
             /\ (Holds(p, id) /\ req[p].pc = "save" /\ ~Holds(p, id)') =>
                  \A a \in DOMAIN accounts' :
                    \/ accounts'[a] = accounts[a]
                    \/ a = req[p].account /\ accounts'[a].balance = req[p].balance
     ]_vars

\* Two deletes of the only transaction overlap: one holds the record and the
\* other has been answered without obtaining it.
C38_Witness ==
  /\ nextTx = 2
  /\ last.op = "deleteTransaction"
  /\ \E p \in Procs : Holds(p, 1)

\* C39: when bulk deletes (or delete-alls) with overlapping matches, or a
\* bulk delete and a single delete of one of its transactions, run
\* concurrently, the effect of each removed transaction is reversed exactly
\* once: a request applies the reversal of a record only while the record is
\* still stored and no other request in flight has reversed it.
HasReversed(p, i) ==
  /\ req[p].op \in BulkOpNames
  /\ req[p].pc \in {"deleteMany", "respond"}
  /\ i \in req[p].found

C39_ReversedExactlyOnce ==
  [][\A p \in Procs :
       /\ (req[p].op \in BulkOpNames /\ req[p].pc = "bulkWrite" /\ req'[p].pc = "deleteMany") =>
            \A i \in req[p].found :
              /\ i \in DOMAIN txs
              /\ \A q \in Procs \ {p} : ~HasReversed(q, i)
       /\ \A i \in KnownTxIds :
            (~Holds(p, i) /\ Holds(p, i)') =>
              \A q \in Procs \ {p} : ~HasReversed(q, i)
  ]_vars

====
